---- MODULE Spec2Model ----
(***************************************************************************)
(* The two-player card-battle session of but2-tcg-api: the Game class of   *)
(* src/models/game.model.ts driving two Player objects                     *)
(* (src/models/player.model.ts) with the damage rules of                   *)
(* src/modules/game/game.service.ts.                                       *)
(***************************************************************************)
EXTENDS Integers, Sequences, FiniteSets, TLC

(***************************************************************************)
(* Bounds of the model.                                                    *)
(***************************************************************************)
\* Cards in a deck (20 in production, 10 in the test suite).
DeckSize == 6
\* Attack and defense values given to the damage rules: 0..MaxStat.
MaxStat == 3
\* Shuffle outcomes explored per deck: rotations by 0..MaxShift.
MaxShift == 1
\* Game requests that change a game, followed per run of the server.
MaxMoves == 3

(***************************************************************************)
(* Program constants.                                                      *)
(***************************************************************************)
\* Player.drawCards fills the hand up to 5 cards.
MaxHand == 5
\* Player.attack wins the game at 3 points.
WinScore == 3

(***************************************************************************)
(* Values.                                                                 *)
(***************************************************************************)
\* null / undefined of the source, for an object and for a socket id.
Null == [null |-> TRUE]
NullId == "null"

\* Connection ids: the host, and the ids a caller may present.
HostId == "s1"
Sockets == {"s1", "s2", "s3"}

\* The id given to the Game constructor.
RoomId == "room"

\* enum PokemonType
PokemonType ==
    {"Normal", "Fire", "Water", "Electric", "Grass", "Ice", "Fighting",
     "Poison", "Ground", "Flying", "Psychic", "Bug", "Rock", "Ghost",
     "Dragon", "Dark", "Steel", "Fairy"}

\* enum GameStatus, enum TurnState
GameStatus == {"waiting", "playing", "finished"}
TurnState == {"host", "guest"}

(***************************************************************************)
(* The cards the deck store supplies.  Water is super-effective against    *)
(* Fire; Fire against Water is floored at 1 damage (attack 3 - defense 4). *)
(***************************************************************************)
Charmander ==
    [id |-> "card-2", name |-> "Charmander", type |-> "Fire",
     hp |-> 2, attack |-> 3, defense |-> 2]
Squirtle ==
    [id |-> "card-3", name |-> "Squirtle", type |-> "Water",
     hp |-> 3, attack |-> 3, defense |-> 4]

Cards == {Charmander, Squirtle}

\* The deck the store returns for either player, before shuffling: the two
\* cards alternate through it.
StoreDeck == [i \in 1..DeckSize |-> IF i % 2 = 1 THEN Charmander ELSE Squirtle]

\* [...deck].sort(() => Math.random() - 0.5): some permutation of the deck.
\* The model explores the rotations by 0..MaxShift.
Rotate(s, k) == [i \in 1..Len(s) |-> s[((i - 1 + k) % Len(s)) + 1]]
Shuffles(deck) == {Rotate(deck, k) : k \in 0..MaxShift}

(***************************************************************************)
(* Damage rules.                                                           *)
(***************************************************************************)
\* typeWeaknessTable of the test suite: the weakness asserted for each type.
typeWeaknessTable ==
    [t \in PokemonType |->
        CASE t = "Normal" -> "Fighting"
          [] t = "Fire" -> "Water"
          [] t = "Water" -> "Electric"
          [] t = "Electric" -> "Ground"
          [] t = "Grass" -> "Fire"
          [] t = "Ice" -> "Fire"
          [] t = "Fighting" -> "Psychic"
          [] t = "Poison" -> "Psychic"
          [] t = "Ground" -> "Water"
          [] t = "Flying" -> "Electric"
          [] t = "Psychic" -> "Dark"
          [] t = "Bug" -> "Fire"
          [] t = "Rock" -> "Water"
          [] t = "Ghost" -> "Dark"
          [] t = "Dragon" -> "Ice"
          [] t = "Dark" -> "Fighting"
          [] t = "Steel" -> "Fire"
          [] t = "Fairy" -> "Poison"]

\* A switch whose last case is missing: Fairy falls to the default.
getWeakness_withoutFairy(defenderType) ==
    IF defenderType = "Fairy" THEN "null" ELSE typeWeaknessTable[defenderType]

getWeakness(defenderType) ==
    CASE defenderType = "Normal" -> "Fighting"
      [] defenderType = "Fire" -> "Water"
      [] defenderType = "Water" -> "Electric"
      [] defenderType = "Electric" -> "Ground"
      [] defenderType = "Grass" -> "Fire"
      [] defenderType = "Ice" -> "Fire"
      [] defenderType = "Fighting" -> "Psychic"
      [] defenderType = "Poison" -> "Psychic"
      [] defenderType = "Ground" -> "Water"
      [] defenderType = "Flying" -> "Electric"
      [] defenderType = "Psychic" -> "Dark"
      [] defenderType = "Bug" -> "Fire"
      [] defenderType = "Rock" -> "Water"
      [] defenderType = "Ghost" -> "Dark"
      [] defenderType = "Dragon" -> "Ice"
      [] defenderType = "Dark" -> "Fighting"
      [] defenderType = "Steel" -> "Fire"
      [] defenderType = "Fairy" -> "Poison"
      [] OTHER -> "null"

\* A multiplier that looks up the attacker's weakness instead of the
\* defender's.
getDamageMultiplier_attackerWeakness(attackerType, defenderType) ==
    IF getWeakness(attackerType) = defenderType THEN 2 ELSE 1

getDamageMultiplier(attackerType, defenderType) ==
    IF getWeakness(defenderType) = attackerType THEN 2 ELSE 1

Max(a, b) == IF a >= b THEN a ELSE b

\* A calculateDamage without the minimum of 1.
calculateDamage_noMinimum(attackerAttack, attackerType, defenderDefense, defenderType) ==
    (attackerAttack - defenderDefense)
        * getDamageMultiplier(attackerType, defenderType)

\* Math.floor of an integer product is the product itself.
calculateDamage(attackerAttack, attackerType, defenderDefense, defenderType) ==
    LET multiplier == getDamageMultiplier(attackerType, defenderType)
        baseDamage == attackerAttack - defenderDefense
        damage == baseDamage * multiplier
    IN  Max(1, damage)

(***************************************************************************)
(* Player (src/models/player.model.ts).                                    *)
(***************************************************************************)
\* new Player(socketId, deck): the deck arrives already shuffled here.
NewPlayer(socketId, deck) ==
    [socketId |-> socketId, hand |-> <<>>, deck |-> deck,
     activeCard |-> Null, score |-> 0]

\* A draw loop that lets the hand reach MaxHand before it looks at it.
canDraw_inclusive(p) == Len(p.hand) <= MaxHand /\ Len(p.deck) > 0

\* while (this.hand.length < 5 && this.deck.length > 0)
canDraw(p) == Len(p.hand) < MaxHand /\ Len(p.deck) > 0

\* A pass that takes the first card of the deck (shift for pop).
drawOne_shift(p) ==
    [p EXCEPT !.hand = Append(@, p.deck[1]),
              !.deck = SubSeq(@, 2, Len(@))]

\* One pass of the loop body: Array.pop() takes the last card of the deck,
\* push() appends it to the hand.
drawOne(p) ==
    [p EXCEPT !.hand = Append(@, p.deck[Len(p.deck)]),
              !.deck = SubSeq(@, 1, Len(@) - 1)]

\* The while loop: q is the player after one pass, r the player the rest of
\* the loop leaves.
RECURSIVE Player_drawLoop(_)
Player_drawLoop(p) ==
    IF canDraw(p)
    THEN CHOOSE r \in {Player_drawLoop(q) : q \in {drawOne(p)}} : TRUE
    ELSE p

Player_drawCards(p) ==
    LET q == Player_drawLoop(p)
    IN  [success |-> TRUE,
         message |-> [text |-> "Vous avez maintenant n cartes en main", n |-> Len(q.hand)],
         player |-> q]

\* A removal that takes the last card whatever the index (pop for splice).
Splice_last(s, cardIndex) == SubSeq(s, 1, Len(s) - 1)

\* hand.splice(cardIndex, 1): cardIndex counts from 0.
Splice(s, cardIndex) ==
    SubSeq(s, 1, cardIndex) \o SubSeq(s, cardIndex + 2, Len(s))

\* A playCard that takes the card out of the hand before it looks at the
\* board.
Player_playCard_spliceFirst(p, cardIndex) ==
    IF cardIndex < 0 \/ cardIndex >= Len(p.hand)
    THEN [success |-> FALSE, message |-> [text |-> "Index de carte invalide"], player |-> p]
    ELSE LET card == p.hand[cardIndex + 1]
             q == [p EXCEPT !.hand = Splice(@, cardIndex)]
         IN  IF p.activeCard # Null
             THEN [success |-> FALSE,
                   message |-> [text |-> "Vous avez deja une carte active sur le board"],
                   player |-> q]
             ELSE [success |-> TRUE,
                   message |-> [text |-> "a ete place sur le board", name |-> card.name],
                   player |-> [q EXCEPT !.activeCard = [card |-> card,
                                                        currentHp |-> card.hp]]]

\* A playCard that looks at the board before it looks at the index.
Player_playCard_boardFirst(p, cardIndex) ==
    IF p.activeCard # Null
    THEN [success |-> FALSE,
          message |-> [text |-> "Vous avez deja une carte active sur le board"],
          player |-> p]
    ELSE IF cardIndex < 0 \/ cardIndex >= Len(p.hand)
    THEN [success |-> FALSE, message |-> [text |-> "Index de carte invalide"], player |-> p]
    ELSE LET card == p.hand[cardIndex + 1]
         IN  [success |-> TRUE,
              message |-> [text |-> "a ete place sur le board", name |-> card.name],
              player |-> [p EXCEPT !.hand = Splice(@, cardIndex),
                                   !.activeCard = [card |-> card, currentHp |-> card.hp]]]

Player_playCard(p, cardIndex) ==
    IF cardIndex < 0 \/ cardIndex >= Len(p.hand)
    THEN [success |-> FALSE, message |-> [text |-> "Index de carte invalide"], player |-> p]
    ELSE IF p.activeCard # Null
    THEN [success |-> FALSE,
          message |-> [text |-> "Vous avez deja une carte active sur le board"],
          player |-> p]
    ELSE LET card == p.hand[cardIndex + 1]
         IN  [success |-> TRUE,
              message |-> [text |-> "a ete place sur le board", name |-> card.name],
              player |-> [p EXCEPT !.hand = Splice(@, cardIndex),
                                   !.activeCard = [card |-> card, currentHp |-> card.hp]]]

\* A win declared one point early.
hasWon_early(score) == score >= WinScore - 1

\* if (this.score >= 3): the attacker has won.
hasWon(score) == score >= WinScore

\* A strike that leaves a unit with no HP left on the board.
Player_strike_keepsAtZero(self, opponent) ==
    LET damage == calculateDamage(self.activeCard.card.attack,
                                  self.activeCard.card.type,
                                  opponent.activeCard.card.defense,
                                  opponent.activeCard.card.type)
        hpAfter == opponent.activeCard.currentHp - damage
        isDefeated == hpAfter < 0
        scoreAfter == IF isDefeated THEN self.score + 1 ELSE self.score
        message == [text |-> "attaque et inflige",
                    attacker |-> self.activeCard.card.name,
                    defender |-> opponent.activeCard.card.name,
                    damage |-> damage]
    IN  [success |-> TRUE,
         message |-> IF ~isDefeated THEN message
                     ELSE IF hasWon(scoreAfter)
                     THEN message @@ [ko |-> TRUE, won |-> TRUE]
                     ELSE message @@ [ko |-> TRUE],
         cardDefeated |-> isDefeated,
         gameWon |-> isDefeated /\ hasWon(scoreAfter),
         self |-> [self EXCEPT !.score = scoreAfter],
         opponent |-> IF isDefeated
                      THEN [opponent EXCEPT !.activeCard = Null]
                      ELSE [opponent EXCEPT !.activeCard.currentHp = hpAfter]]

\* A strike that scores a point on every hit, knock-out or not.
Player_strike_scoreOnHit(self, opponent) ==
    LET damage == calculateDamage(self.activeCard.card.attack,
                                  self.activeCard.card.type,
                                  opponent.activeCard.card.defense,
                                  opponent.activeCard.card.type)
        hpAfter == opponent.activeCard.currentHp - damage
        isDefeated == hpAfter <= 0
        scoreAfter == self.score + 1
        message == [text |-> "attaque et inflige",
                    attacker |-> self.activeCard.card.name,
                    defender |-> opponent.activeCard.card.name,
                    damage |-> damage]
    IN  [success |-> TRUE,
         message |-> IF ~isDefeated THEN message
                     ELSE IF hasWon(scoreAfter)
                     THEN message @@ [ko |-> TRUE, won |-> TRUE]
                     ELSE message @@ [ko |-> TRUE],
         cardDefeated |-> isDefeated,
         gameWon |-> isDefeated /\ hasWon(scoreAfter),
         self |-> [self EXCEPT !.score = scoreAfter],
         opponent |-> IF isDefeated
                      THEN [opponent EXCEPT !.activeCard = Null]
                      ELSE [opponent EXCEPT !.activeCard.currentHp = hpAfter]]

\* The attack once both units are known to be there: damage, knock-out,
\* point and win.
Player_strike(self, opponent) ==
    LET damage == calculateDamage(self.activeCard.card.attack,
                                  self.activeCard.card.type,
                                  opponent.activeCard.card.defense,
                                  opponent.activeCard.card.type)
        hpAfter == opponent.activeCard.currentHp - damage
        isDefeated == hpAfter <= 0
        scoreAfter == IF isDefeated THEN self.score + 1 ELSE self.score
        message == [text |-> "attaque et inflige",
                    attacker |-> self.activeCard.card.name,
                    defender |-> opponent.activeCard.card.name,
                    damage |-> damage]
    IN  [success |-> TRUE,
         message |-> IF ~isDefeated THEN message
                     ELSE IF hasWon(scoreAfter)
                     THEN message @@ [ko |-> TRUE, won |-> TRUE]
                     ELSE message @@ [ko |-> TRUE],
         cardDefeated |-> isDefeated,
         gameWon |-> isDefeated /\ hasWon(scoreAfter),
         self |-> [self EXCEPT !.score = scoreAfter],
         opponent |-> IF isDefeated
                      THEN [opponent EXCEPT !.activeCard = Null]
                      ELSE [opponent EXCEPT !.activeCard.currentHp = hpAfter]]

\* An attack that looks at the defender's board before the attacker's.
Player_attack_defenderFirst(self, opponent) ==
    IF opponent.activeCard = Null
    THEN [success |-> FALSE,
          message |-> [text |-> "L'adversaire n'a pas de carte active a attaquer"],
          cardDefeated |-> FALSE, gameWon |-> FALSE,
          self |-> self, opponent |-> opponent]
    ELSE IF self.activeCard = Null
    THEN [success |-> FALSE,
          message |-> [text |-> "Vous n'avez pas de carte active pour attaquer"],
          cardDefeated |-> FALSE, gameWon |-> FALSE,
          self |-> self, opponent |-> opponent]
    ELSE Player_strike(self, opponent)

Player_attack(self, opponent) ==
    IF self.activeCard = Null
    THEN [success |-> FALSE,
          message |-> [text |-> "Vous n'avez pas de carte active pour attaquer"],
          cardDefeated |-> FALSE, gameWon |-> FALSE,
          self |-> self, opponent |-> opponent]
    ELSE IF opponent.activeCard = Null
    THEN [success |-> FALSE,
          message |-> [text |-> "L'adversaire n'a pas de carte active a attaquer"],
          cardDefeated |-> FALSE, gameWon |-> FALSE,
          self |-> self, opponent |-> opponent]
    ELSE Player_strike(self, opponent)

getOwnState(p) ==
    [activeCard |-> p.activeCard, hand |-> p.hand,
     deckCount |-> Len(p.deck), score |-> p.score]

\* An opponent view that carries the hand along with its count.
getOpponentState_withHand(p) ==
    [activeCard |-> p.activeCard, handCount |-> Len(p.hand), hand |-> p.hand,
     deckCount |-> Len(p.deck), score |-> p.score]

getOpponentState(p) ==
    [activeCard |-> p.activeCard, handCount |-> Len(p.hand),
     deckCount |-> Len(p.deck), score |-> p.score]

(***************************************************************************)
(* Game (src/models/game.model.ts).                                        *)
(***************************************************************************)
VARIABLES
    guest,          \* guest.socketId, NullId until a guest joined
    hostPlayer,     \* Player or Null
    guestPlayer,    \* Player or Null
    currentTurn,    \* TurnState
    status,         \* GameStatus
    winner,         \* socket id, NullId while undefined
    damageCall,     \* a call of the damage rules on its own: arguments and
                    \* results; Null in the life of a game
    service,        \* GameService.state; Null where no GameService is built
    server          \* the SocketHandler's maps and suspended handlers; Null
                    \* where no server runs

vars ==
    <<guest, hostPlayer, guestPlayer, currentTurn, status, winner, damageCall,
      service, server>>

\* The fields of the Game object, as one value.
Game ==
    [guest |-> guest, hostPlayer |-> hostPlayer, guestPlayer |-> guestPlayer,
     currentTurn |-> currentTurn, status |-> status, winner |-> winner]

isWaiting(g) == g.status = "waiting"
isFull(g) == g.guest # NullId
isHost(socketId) == socketId = HostId

\* A guard that only turns away the calls made before the game started.
notPlaying_waitingOnly(g) == g.status = "waiting"

\* A guard that only turns away the calls made after the game ended.
notPlaying_finishedOnly(g) == g.status = "finished"

\* The guard every action starts with: this.status !== GameStatus.PLAYING.
notPlaying(g) == g.status # "playing"

\* Which of the two Player objects a socket id resolves to: getPlayer,
\* getOpponent and getPlayerTurn share these comparisons.
getPlayerTurn(g, socketId) ==
    IF g.hostPlayer = Null \/ g.guestPlayer = Null THEN "none"
    ELSE IF socketId = g.hostPlayer.socketId THEN "host"
    ELSE IF socketId = g.guestPlayer.socketId THEN "guest"
    ELSE "none"

getPlayer(g, socketId) ==
    IF g.hostPlayer = Null \/ g.guestPlayer = Null THEN Null
    ELSE IF socketId = g.hostPlayer.socketId THEN g.hostPlayer
    ELSE IF socketId = g.guestPlayer.socketId THEN g.guestPlayer
    ELSE Null

getOpponent(g, socketId) ==
    IF g.hostPlayer = Null \/ g.guestPlayer = Null THEN Null
    ELSE IF socketId = g.hostPlayer.socketId THEN g.guestPlayer
    ELSE IF socketId = g.guestPlayer.socketId THEN g.hostPlayer
    ELSE Null

\* A switchTurn whose two branches are exchanged.
switchTurn_exchanged(g) ==
    [g EXCEPT !.currentTurn = IF @ = "host" THEN "host" ELSE "guest"]

switchTurn(g) ==
    [g EXCEPT !.currentTurn = IF @ = "host" THEN "guest" ELSE "host"]

\* A turn check that lets every player of the game through.
isTurnOf_anyPlayer(g, socketId) == getPlayerTurn(g, socketId) # "none"

\* this.currentTurn === this.getPlayerTurn(socketId)
isTurnOf(g, socketId) == g.currentTurn = getPlayerTurn(g, socketId)

\* The Player object a call resolved is mutated in place: the game with
\* that object, and its opponent, replaced.
WithPlayer(g, socketId, p) ==
    IF getPlayerTurn(g, socketId) = "host"
    THEN [g EXCEPT !.hostPlayer = p]
    ELSE [g EXCEPT !.guestPlayer = p]

WithOpponent(g, socketId, p) ==
    IF getPlayerTurn(g, socketId) = "host"
    THEN [g EXCEPT !.guestPlayer = p]
    ELSE [g EXCEPT !.hostPlayer = p]

\* A projection whose isYourTurn is the one of the first turn, kept since.
getStateForPlayer_firstTurn(g, socketId) ==
    LET player == getPlayer(g, socketId)
        opponent == getOpponent(g, socketId)
    IN  IF player = Null \/ opponent = Null THEN Null
        ELSE [roomId |-> RoomId,
              status |-> g.status,
              winner |-> g.winner,
              currentTurn |-> g.currentTurn,
              isYourTurn |-> isHost(socketId),
              yourBoard |-> getOwnState(player),
              opponentBoard |-> getOpponentState(opponent)]

getStateForPlayer(g, socketId) ==
    LET player == getPlayer(g, socketId)
        opponent == getOpponent(g, socketId)
    IN  IF player = Null \/ opponent = Null THEN Null
        ELSE [roomId |-> RoomId,
              status |-> g.status,
              winner |-> g.winner,
              currentTurn |-> g.currentTurn,
              isYourTurn |-> isTurnOf(g, socketId),
              yourBoard |-> getOwnState(player),
              opponentBoard |-> getOpponentState(opponent)]

createErrorEvent(target, message) ==
    [target |-> target, type |-> "error", data |-> [message |-> message]]

createStateUpdateEvent(target, message, gameState) ==
    [target |-> target, type |-> "gameStateUpdated",
     data |-> [message |-> message, gameState |-> gameState]]

\* A game-ended event that only the host is told of.
createGameEndedEvent_hostOnly(w, message) ==
    [target |-> "host", type |-> "gameEnded",
     data |-> [winner |-> w, message |-> message]]

createGameEndedEvent(w, message) ==
    [target |-> "both", type |-> "gameEnded",
     data |-> [winner |-> w, message |-> message]]

\* A rejected call: the game as it was and a batch of one error event.
Rejected(g, socketId, message) ==
    [game |-> g,
     events |-> <<createErrorEvent(IF isHost(socketId) THEN "host" ELSE "guest",
                                   message)>>]

\* State updates that hand each side the projection made for the other.
StateUpdates_swapped(g, socketId, message, other) ==
    <<createStateUpdateEvent("host",
                             IF isHost(socketId) THEN message ELSE other,
                             getStateForPlayer(g, g.guest)),
      createStateUpdateEvent("guest",
                             IF ~isHost(socketId) THEN message ELSE other,
                             getStateForPlayer(g, HostId))>>

\* The two state updates a successful call returns, computed on the game
\* as the call left it.
StateUpdates(g, socketId, message, other) ==
    <<createStateUpdateEvent("host",
                             IF isHost(socketId) THEN message ELSE other,
                             getStateForPlayer(g, HostId)),
      createStateUpdateEvent("guest",
                             IF ~isHost(socketId) THEN message ELSE other,
                             getStateForPlayer(g, g.guest))>>

\* A finish that forgets the winner.
finish_statusOnly(g, attackerSocketId) == [g EXCEPT !.status = "finished"]

\* A won game: status and winner are set together.
finish(g, attackerSocketId) ==
    [g EXCEPT !.status = "finished", !.winner = attackerSocketId]

\* A conclusion that passes the turn whatever the result.
conclude_alwaysSwitch(g, attackerSocketId, gameWon) ==
    IF gameWon THEN finish(switchTurn(g), attackerSocketId) ELSE switchTurn(g)

\* What attack does after a successful Player.attack: the turn passes unless
\* the game is won, and a won game is finished.
conclude(g, attackerSocketId, gameWon) ==
    LET turned == IF ~gameWon THEN switchTurn(g) ELSE g
    IN  IF gameWon THEN finish(turned, attackerSocketId) ELSE turned

\* A join that is accepted whatever the status and whoever sits already.
Game_startWithGuest_unguarded(g, guestSocketId) ==
    {[game |-> [g EXCEPT !.guest = guestSocketId,
                         !.hostPlayer = NewPlayer(HostId, hostDeck),
                         !.guestPlayer = NewPlayer(guestSocketId, guestDeck),
                         !.status = "playing"],
      result |-> [success |-> TRUE, message |-> "Game started"]] :
         hostDeck \in Shuffles(StoreDeck), guestDeck \in Shuffles(StoreDeck)}

\* startWithGuest: the games it can leave, each with its result.  The two
\* Player constructors shuffle, so a call that passes the guards has one
\* outcome per pair of shuffles.
Game_startWithGuest(g, guestSocketId) ==
    IF ~isWaiting(g)
    THEN {[game |-> g, result |-> [success |-> FALSE, message |-> "Game already started"]]}
    ELSE IF isFull(g)
    THEN {[game |-> g, result |-> [success |-> FALSE, message |-> "Game is full"]]}
    ELSE {[game |-> [g EXCEPT !.guest = guestSocketId,
                              !.hostPlayer = NewPlayer(HostId, hostDeck),
                              !.guestPlayer = NewPlayer(guestSocketId, guestDeck),
                              !.status = "playing"],
           result |-> [success |-> TRUE, message |-> "Game started"]] :
              hostDeck \in Shuffles(StoreDeck), guestDeck \in Shuffles(StoreDeck)}

\* A drawCards gated by the turn like playCard and attack.
Game_drawCards_turnGated(g, playerSocketId) ==
    IF notPlaying(g)
    THEN Rejected(g, playerSocketId, [text |-> "Game not started"])
    ELSE IF getPlayer(g, playerSocketId) = Null
    THEN Rejected(g, playerSocketId, [text |-> "Joueur non trouve"])
    ELSE IF ~isTurnOf(g, playerSocketId)
    THEN Rejected(g, playerSocketId, [text |-> "Ce n'est pas votre tour"])
    ELSE LET result == Player_drawCards(getPlayer(g, playerSocketId))
             after == WithPlayer(g, playerSocketId, result.player)
         IN  [game |-> after,
              events |-> StateUpdates(after, playerSocketId, result.message,
                                      [text |-> "L'adversaire a pioche des cartes"])]

Game_drawCards(g, playerSocketId) ==
    IF notPlaying(g)
    THEN Rejected(g, playerSocketId, [text |-> "Game not started"])
    ELSE IF getPlayer(g, playerSocketId) = Null
    THEN Rejected(g, playerSocketId, [text |-> "Joueur non trouve"])
    ELSE LET result == Player_drawCards(getPlayer(g, playerSocketId))
             after == WithPlayer(g, playerSocketId, result.player)
         IN  IF ~result.success
             THEN Rejected(after, playerSocketId, result.message)
             ELSE [game |-> after,
                   events |-> StateUpdates(after, playerSocketId, result.message,
                                           [text |-> "L'adversaire a pioche des cartes"])]

Game_playCard(g, playerSocketId, cardIndex) ==
    IF notPlaying(g)
    THEN Rejected(g, playerSocketId, [text |-> "Game not started"])
    ELSE IF getPlayer(g, playerSocketId) = Null
    THEN Rejected(g, playerSocketId, [text |-> "Joueur non trouve"])
    ELSE IF ~isTurnOf(g, playerSocketId)
    THEN Rejected(g, playerSocketId, [text |-> "Ce n'est pas votre tour"])
    ELSE LET result == Player_playCard(getPlayer(g, playerSocketId), cardIndex)
             after == WithPlayer(g, playerSocketId, result.player)
         IN  IF ~result.success
             THEN Rejected(after, playerSocketId, result.message)
             ELSE [game |-> after,
                   events |-> StateUpdates(after, playerSocketId, result.message,
                                           [text |-> "L'adversaire a joue une carte"])]

Game_attack(g, attackerSocketId) ==
    IF notPlaying(g)
    THEN Rejected(g, attackerSocketId, [text |-> "Game not started"])
    ELSE IF getPlayer(g, attackerSocketId) = Null \/ getOpponent(g, attackerSocketId) = Null
    THEN Rejected(g, attackerSocketId,
                  [text |-> "Erreur lors de la recuperation des joueurs"])
    ELSE IF ~isTurnOf(g, attackerSocketId)
    THEN Rejected(g, attackerSocketId, [text |-> "Ce n'est pas votre tour"])
    ELSE LET result == Player_attack(getPlayer(g, attackerSocketId),
                                     getOpponent(g, attackerSocketId))
             fought == WithOpponent(WithPlayer(g, attackerSocketId, result.self),
                                    attackerSocketId, result.opponent)
         IN  IF ~result.success
             THEN Rejected(fought, attackerSocketId, result.message)
             ELSE LET after == conclude(fought, attackerSocketId, result.gameWon)
                  IN  [game |-> after,
                       events |->
                           StateUpdates(after, attackerSocketId, result.message,
                                        result.message)
                           \o (IF result.gameWon
                               THEN <<createGameEndedEvent(
                                         attackerSocketId,
                                         IF after.winner = attackerSocketId
                                         THEN "Vous avez gagne !"
                                         ELSE "Vous avez perdu !")>>
                               ELSE <<>>)]

\* setCurrentTurn, the seam the test suite uses to hand the turn over.
Game_setCurrentTurn(g, turn) == [g EXCEPT !.currentTurn = turn]

(***************************************************************************)
(* The state machine: one action per call on the Game object.              *)
(***************************************************************************)
\* The fields of the Game object become those of g.
Becomes(g) ==
    /\ guest' = g.guest
    /\ hostPlayer' = g.hostPlayer
    /\ guestPlayer' = g.guestPlayer
    /\ currentTurn' = g.currentTurn
    /\ status' = g.status
    /\ winner' = g.winner
    /\ damageCall' = damageCall
    /\ UNCHANGED <<service, server>>

\* new Game(id, hostSocketId, hostUserId, hostDeckId)
Init ==
    /\ guest = NullId
    /\ hostPlayer = Null
    /\ guestPlayer = Null
    /\ currentTurn = "host"
    /\ status = "waiting"
    /\ winner = NullId
    /\ damageCall = Null
    /\ service = Null
    /\ server = Null

\* Connections that ask to join: the host's own, and another one.
Joiners == {"s1", "s2"}

\* Indexes a caller presents: below, inside and beyond any hand.
CardIndexes == (-1)..MaxHand

StartWithGuest(guestSocketId) ==
    /\ guestSocketId \in Joiners
    /\ \E r \in Game_startWithGuest(Game, guestSocketId) : Becomes(r.game)

DrawCards(playerSocketId) ==
    /\ playerSocketId \in Sockets
    /\ \E after \in {Game_drawCards(Game, playerSocketId).game} : Becomes(after)

PlayCard(playerSocketId, cardIndex) ==
    /\ playerSocketId \in Sockets
    /\ cardIndex \in CardIndexes
    /\ \E after \in {Game_playCard(Game, playerSocketId, cardIndex).game} : Becomes(after)

Attack(attackerSocketId) ==
    /\ attackerSocketId \in Sockets
    /\ \E after \in {Game_attack(Game, attackerSocketId).game} : Becomes(after)

SetCurrentTurn(turn) ==
    /\ turn \in TurnState
    /\ \E after \in {Game_setCurrentTurn(Game, turn)} : Becomes(after)

Next ==
    \/ \E g \in Joiners : StartWithGuest(g)
    \/ \E p \in Sockets : DrawCards(p)
    \/ \E p \in Sockets, i \in CardIndexes : PlayCard(p, i)
    \/ \E p \in Sockets : Attack(p)

\* The calls the clients of a game can cause.
Spec == Init /\ [][Next]_vars

NextSeam ==
    \/ Next
    \/ \E t \in TurnState : SetCurrentTurn(t)

\* The same, driven as the test suite drives the class: setCurrentTurn hands
\* the turn over between the calls.
SpecSeam == Init /\ [][NextSeam]_vars

\* The clients keep calling: a call that changes the game is eventually made
\* as long as one exists.
FairSpec == Spec /\ WF_vars(Next)

(***************************************************************************)
(* The damage rules on their own: calculateDamage called on any attack,    *)
(* defense and pair of types, outside any game.                            *)
(***************************************************************************)
Stats == 0..MaxStat

InitRules ==
    /\ guest = NullId
    /\ hostPlayer = Null
    /\ guestPlayer = Null
    /\ currentTurn = "host"
    /\ status = "waiting"
    /\ winner = NullId
    /\ service = Null
    /\ server = Null
    /\ damageCall \in [attackerAttack : Stats, attackerType : PokemonType,
                        defenderDefense : Stats, defenderType : PokemonType,
                        done : {FALSE}, weakness : {"null"},
                        multiplier : {0}, damage : {0}]

\* One call: the weakness looked up, the multiplier and the damage returned.
CalculateDamage ==
    /\ ~damageCall.done
    /\ damageCall' =
           [damageCall EXCEPT
               !.done = TRUE,
               !.weakness = getWeakness(damageCall.defenderType),
               !.multiplier = getDamageMultiplier(damageCall.attackerType,
                                                  damageCall.defenderType),
               !.damage = calculateDamage(damageCall.attackerAttack,
                                          damageCall.attackerType,
                                          damageCall.defenderDefense,
                                          damageCall.defenderType)]
    /\ UNCHANGED <<guest, hostPlayer, guestPlayer, currentTurn, status, winner,
                   service, server>>

NextRules == CalculateDamage

SpecRules == InitRules /\ [][NextRules]_vars

(***************************************************************************)
(* GameService (src/modules/game/game.service.ts): the game kept as one    *)
(* state object, with the turn held as a socket id.                        *)
(***************************************************************************)
\* constructor: both decks shuffled, the host's turn, status playing.
GameService_new(hostSocketId, hostDeck, guestSocketId, guestDeck) ==
    [hostSocketId |-> hostSocketId,
     guestSocketId |-> guestSocketId,
     currentTurn |-> hostSocketId,
     status |-> "playing",
     winner |-> NullId,
     host |-> [activeCard |-> Null, hand |-> <<>>, deck |-> hostDeck, score |-> 0],
     guest |-> [activeCard |-> Null, hand |-> <<>>, deck |-> guestDeck, score |-> 0]]

\* getPlayerBoard and getOpponentBoard, as the name of the board.
getPlayerBoard(st, playerSocketId) ==
    IF st.hostSocketId = playerSocketId THEN "host"
    ELSE IF st.guestSocketId = playerSocketId THEN "guest"
    ELSE "none"

getOpponentBoard(st, playerSocketId) ==
    IF st.hostSocketId = playerSocketId THEN "guest"
    ELSE IF st.guestSocketId = playerSocketId THEN "host"
    ELSE "none"

BoardOf(st, side) == IF side = "host" THEN st.host ELSE st.guest

WithBoard(st, side, board) ==
    IF side = "host" THEN [st EXCEPT !.host = board] ELSE [st EXCEPT !.guest = board]

\* The draw loop of GameService.drawCards.
RECURSIVE GameService_drawLoop(_)
GameService_drawLoop(board) ==
    IF Len(board.hand) < MaxHand /\ Len(board.deck) > 0
    THEN CHOOSE r \in {GameService_drawLoop(q) :
                          q \in {[board EXCEPT
                                     !.hand = Append(@, board.deck[Len(board.deck)]),
                                     !.deck = SubSeq(@, 1, Len(@) - 1)]}} : TRUE
    ELSE board

GameService_drawCards(st, playerSocketId) ==
    LET side == getPlayerBoard(st, playerSocketId)
    IN  IF side = "none"
        THEN [state |-> st, success |-> FALSE, message |-> [text |-> "Joueur non trouve"]]
        ELSE LET board == GameService_drawLoop(BoardOf(st, side))
             IN  [state |-> WithBoard(st, side, board),
                  success |-> TRUE,
                  message |-> [text |-> "Vous avez maintenant n cartes en main",
                               n |-> Len(board.hand)]]

GameService_playCard(st, playerSocketId, cardIndex) ==
    LET side == getPlayerBoard(st, playerSocketId)
        board == BoardOf(st, side)
    IN  IF st.currentTurn # playerSocketId
        THEN [state |-> st, success |-> FALSE,
              message |-> [text |-> "Ce n'est pas votre tour"]]
        ELSE IF side = "none"
        THEN [state |-> st, success |-> FALSE, message |-> [text |-> "Joueur non trouve"]]
        ELSE IF cardIndex < 0 \/ cardIndex >= Len(board.hand)
        THEN [state |-> st, success |-> FALSE,
              message |-> [text |-> "Index de carte invalide"]]
        ELSE IF board.activeCard # Null
        THEN [state |-> st, success |-> FALSE,
              message |-> [text |-> "Vous avez deja une carte active sur le board"]]
        ELSE LET card == board.hand[cardIndex + 1]
             IN  [state |-> WithBoard(st, side,
                                [board EXCEPT
                                    !.hand = Splice(@, cardIndex),
                                    !.activeCard = [card |-> card, currentHp |-> card.hp]]),
                  success |-> TRUE,
                  message |-> [text |-> "a ete place sur le board", name |-> card.name]]

\* GameService.switchTurn
GameService_switchTurn(st) ==
    [st EXCEPT !.currentTurn = IF @ = st.hostSocketId THEN st.guestSocketId
                               ELSE st.hostSocketId]

GameService_attack(st, attackerSocketId) ==
    LET attackerSide == getPlayerBoard(st, attackerSocketId)
        defenderSide == getOpponentBoard(st, attackerSocketId)
        attackerBoard == BoardOf(st, attackerSide)
        defenderBoard == BoardOf(st, defenderSide)
    IN  IF st.currentTurn # attackerSocketId
        THEN [state |-> st, success |-> FALSE,
              message |-> [text |-> "Ce n'est pas votre tour"]]
        ELSE IF attackerSide = "none" \/ defenderSide = "none"
        THEN [state |-> st, success |-> FALSE,
              message |-> [text |-> "Erreur lors de la recuperation des joueurs"]]
        ELSE IF attackerBoard.activeCard = Null
        THEN [state |-> st, success |-> FALSE,
              message |-> [text |-> "Vous n'avez pas de carte active pour attaquer"]]
        ELSE IF defenderBoard.activeCard = Null
        THEN [state |-> st, success |-> FALSE,
              message |-> [text |-> "L'adversaire n'a pas de carte active a attaquer"]]
        ELSE LET damage == calculateDamage(attackerBoard.activeCard.card.attack,
                                           attackerBoard.activeCard.card.type,
                                           defenderBoard.activeCard.card.defense,
                                           defenderBoard.activeCard.card.type)
                 hpAfter == defenderBoard.activeCard.currentHp - damage
                 isDefeated == hpAfter <= 0
                 scoreAfter == IF isDefeated THEN attackerBoard.score + 1
                               ELSE attackerBoard.score
                 hit == WithBoard(
                            WithBoard(st, defenderSide,
                                      IF isDefeated
                                      THEN [defenderBoard EXCEPT !.activeCard = Null]
                                      ELSE [defenderBoard EXCEPT
                                               !.activeCard.currentHp = hpAfter]),
                            attackerSide, [attackerBoard EXCEPT !.score = scoreAfter])
                 message == [text |-> "attaque et inflige", damage |-> damage]
             IN  IF isDefeated /\ scoreAfter >= WinScore
                 THEN [state |-> [hit EXCEPT !.status = "finished",
                                             !.winner = attackerSocketId],
                       success |-> TRUE,
                       message |-> message @@ [ko |-> TRUE, won |-> TRUE]]
                 ELSE [state |-> GameService_switchTurn(hit),
                       success |-> TRUE,
                       message |-> IF isDefeated THEN message @@ [ko |-> TRUE]
                                   ELSE message]

\* One GameService, built for the host and a guest, and the calls on it.
InitService ==
    /\ guest = NullId
    /\ hostPlayer = Null
    /\ guestPlayer = Null
    /\ currentTurn = "host"
    /\ status = "waiting"
    /\ winner = NullId
    /\ damageCall = Null
    /\ server = Null
    /\ service \in {GameService_new(HostId, hostDeck, guestSocketId, guestDeck) :
                       hostDeck \in Shuffles(StoreDeck),
                       guestDeck \in Shuffles(StoreDeck),
                       guestSocketId \in Joiners}

ServiceBecomes(st) ==
    /\ service' = st
    /\ UNCHANGED <<guest, hostPlayer, guestPlayer, currentTurn, status, winner,
                   damageCall, server>>

ServiceDrawCards(playerSocketId) ==
    /\ playerSocketId \in Sockets
    /\ \E after \in {GameService_drawCards(service, playerSocketId).state} :
          ServiceBecomes(after)

ServicePlayCard(playerSocketId, cardIndex) ==
    /\ playerSocketId \in Sockets
    /\ cardIndex \in CardIndexes
    /\ \E after \in {GameService_playCard(service, playerSocketId, cardIndex).state} :
          ServiceBecomes(after)

ServiceAttack(attackerSocketId) ==
    /\ attackerSocketId \in Sockets
    /\ \E after \in {GameService_attack(service, attackerSocketId).state} :
          ServiceBecomes(after)

NextService ==
    \/ \E s \in Sockets : ServiceDrawCards(s)
    \/ \E s \in Sockets, i \in CardIndexes : ServicePlayCard(s, i)
    \/ \E s \in Sockets : ServiceAttack(s)

SpecService == InitService /\ [][NextService]_vars

(***************************************************************************)
(* The calls a client can make on a started game, and their results.       *)
(***************************************************************************)
Calls ==
    [op : {"drawCards", "attack"}, by : Sockets, cardIndex : {0}]
        \cup [op : {"playCard"}, by : Sockets, cardIndex : CardIndexes]

Apply(g, c) ==
    CASE c.op = "drawCards" -> Game_drawCards(g, c.by)
      [] c.op = "playCard" -> Game_playCard(g, c.by, c.cardIndex)
      [] c.op = "attack" -> Game_attack(g, c.by)

\* A call failed when it returned an error event.
Failed(r) == \E i \in DOMAIN r.events : r.events[i].type = "error"

\* A call won the game when it returned a gameEnded event.
Won(r) == \E i \in DOMAIN r.events : r.events[i].type = "gameEnded"

ErrorText(r) == r.events[1].data.message.text

Started == hostPlayer # Null /\ guestPlayer # Null

\* The side a socket id plays on, and the Player of a side.
PlayerOf(g, side) == IF side = "host" THEN g.hostPlayer ELSE g.guestPlayer
OtherSide(side) == IF side = "host" THEN "guest" ELSE "host"

\* The active unit and the score of a side, before the game started too.
Active(side) ==
    IF PlayerOf(Game, side) = Null THEN Null ELSE PlayerOf(Game, side).activeCard
Score(side) ==
    IF PlayerOf(Game, side) = Null THEN 0 ELSE PlayerOf(Game, side).score

(***************************************************************************)
(* C1                                                                      *)
(***************************************************************************)
\* C1: a drawCards, playCard or attack call that returns a failure leaves
\* both players (hand, deck, active unit and its currentHp, score) and the
\* game's turn, status and winner exactly as they were before the call.
C1_AtomicityOnFailure ==
    \A c \in Calls :
        LET r == Apply(Game, c)
        IN  Failed(r) => r.game = Game

\* A game in play where a call gets past the game's guards and fails inside
\* the Player: a second unit played onto an occupied board.
C1_Witness ==
    /\ Started
    /\ status = "playing"
    /\ \E c \in Calls :
          /\ c.op = "playCard"
          /\ Failed(Apply(Game, c))
          /\ ErrorText(Apply(Game, c)) = "Vous avez deja une carte active sur le board"

(***************************************************************************)
(* C2                                                                      *)
(***************************************************************************)
\* What a call by a player who does not hold the turn returns.
C2_Refused ==
    \A c \in Calls :
        (/\ c.op \in {"playCard", "attack"}
         /\ getPlayer(Game, c.by) # Null
         /\ currentTurn # getPlayerTurn(Game, c.by))
        => LET r == Apply(Game, c)
           IN  /\ Failed(r)
               /\ r.game = Game
               /\ status = "playing" => ErrorText(r) = "Ce n'est pas votre tour"

\* A side placed a unit in this step.
Placed(side) == Active(side) = Null /\ Active(side)' # Null

\* A side's unit was damaged in this step: knocked out, or left with less hp.
Damaged(side) ==
    /\ Active(side) # Null
    /\ \/ Active(side)' = Null
       \/ Active(side)'.currentHp < Active(side).currentHp

C2_Step ==
    \A side \in TurnState :
        (Placed(side) \/ Damaged(OtherSide(side))) => currentTurn = side

\* C2: playCard and attack called by a resolved player who does not hold the
\* turn fail, with "Ce n'est pas votre tour" while the game is in play (the
\* status guard answers first once it is finished); and in no step does a
\* player place a unit or damage the opponent's unit while the turn pointer
\* is on the other player.
C2_NotYourTurn == []C2_Refused /\ [][C2_Step]_vars

\* The guest holds the turn, has placed a unit and has damaged the host's
\* unit, and the host, who does not hold the turn, is a player of the game.
C2_Witness ==
    /\ Started
    /\ status = "playing"
    /\ currentTurn = "guest"
    /\ guest # HostId
    /\ Active("guest") # Null
    /\ Active("host") # Null
    /\ Active("host").currentHp < Active("host").card.hp

(***************************************************************************)
(* C3                                                                      *)
(***************************************************************************)
\* C3: the turn pointer changes only in a successful attack that does not
\* win the game, where it flips to the other player; every drawCards, every
\* playCard, every failed call and the winning attack leave it unchanged.
C3_TurnAlternation ==
    \A c \in Calls :
        LET r == Apply(Game, c)
        IN  IF c.op = "attack" /\ ~Failed(r) /\ ~Won(r)
            THEN r.game.currentTurn = OtherSide(currentTurn)
            ELSE r.game.currentTurn = currentTurn

\* An attack is about to succeed without winning the game.
C3_Witness ==
    \E c \in Calls :
        /\ c.op = "attack"
        /\ ~Failed(Apply(Game, c))
        /\ ~Won(Apply(Game, c))
        /\ Apply(Game, c).game.currentTurn # currentTurn

(***************************************************************************)
(* C4                                                                      *)
(***************************************************************************)
\* The sequences of n cards.
CardSeqs(n) == [1..n -> Cards]

\* The games that differ from g only in the identities of the cards in the
\* hand and the deck of one side: same counts, same everything else.
Recarded(g, side) ==
    LET p == PlayerOf(g, side)
    IN  { IF side = "host"
          THEN [g EXCEPT !.hostPlayer.hand = h, !.hostPlayer.deck = d]
          ELSE [g EXCEPT !.guestPlayer.hand = h, !.guestPlayer.deck = d] :
              h \in CardSeqs(Len(p.hand)), d \in CardSeqs(Len(p.deck)) }

\* C4: for a participant X, two games that differ only in the identities of
\* the cards in the opponent's hand and deck give the same
\* getStateForPlayer(X); opponentBoard carries handCount and deckCount, the
\* two counts, and no card of the hand or the deck.
C4_InformationHiding ==
    Started =>
        \A x \in {HostId, guest} :
            LET side == getPlayerTurn(Game, x)
                view == getStateForPlayer(Game, x)
                opponent == PlayerOf(Game, OtherSide(side))
            IN  /\ \A other \in Recarded(Game, OtherSide(side)) :
                       getStateForPlayer(other, x) = view
                /\ DOMAIN view.opponentBoard
                       = {"activeCard", "handCount", "deckCount", "score"}
                /\ view.opponentBoard.handCount = Len(opponent.hand)
                /\ view.opponentBoard.deckCount = Len(opponent.deck)

\* Both participants hold cards in hand and in deck, so each has an
\* opponent whose hidden cards could be others.
C4_Witness ==
    /\ Started
    /\ guest # HostId
    /\ \A side \in TurnState :
          Len(PlayerOf(Game, side).hand) > 0 /\ Len(PlayerOf(Game, side).deck) > 0
    /\ Cardinality(Recarded(Game, "guest")) > 1

(***************************************************************************)
(* C5                                                                      *)
(***************************************************************************)
\* Two different connections play and the game has started.
Fresh == Started /\ guest # HostId /\ status = "playing"

\* C5: the game ends when a player reaches 3 points and turns alternate:
\* once a session of two players has started, the calls the players keep
\* making lead to a successful attack that passes the turn to the guest and
\* to a finished game won with a score of 3.
C5_GameEnds ==
    /\ Fresh ~> (currentTurn = "guest")
    /\ Fresh ~> (status = "finished" /\ \E side \in TurnState : Score(side) = WinScore)

\* What the calls do reach: the turn stays with the host, no unit of the
\* guest is ever placed, no point is scored and the game stays out of
\* finished.
C5_TurnStaysWithHost ==
    /\ currentTurn = "host"
    /\ Active("guest") = Null
    /\ Score("host") = 0 /\ Score("guest") = 0
    /\ status # "finished"

\* A started game of two players where the host has a unit on the board,
\* both hands are full, and no call by anyone changes anything any more.
C5_Witness ==
    /\ Fresh
    /\ Active("host") # Null
    /\ Len(hostPlayer.hand) = MaxHand /\ Len(guestPlayer.hand) = MaxHand
    /\ \A c \in Calls : Apply(Game, c).game = Game

(***************************************************************************)
(* C6                                                                      *)
(***************************************************************************)
\* C6: in every reachable state each player's hand holds between 0 and 5
\* cards, under any sequence of drawCards, playCard and attack calls.
C6_HandBound ==
    \A side \in TurnState :
        PlayerOf(Game, side) # Null
            => Len(PlayerOf(Game, side).hand) \in 0..MaxHand

\* A draw stopped at 5 cards with cards left in the deck, and the other
\* player has drawn, played a card and drawn again up to 5.
C6_Witness ==
    /\ Started
    /\ \E side \in TurnState :
          /\ Len(PlayerOf(Game, side).hand) = MaxHand
          /\ Len(PlayerOf(Game, side).deck) > 0
          /\ Len(PlayerOf(Game, OtherSide(side)).hand) = MaxHand
          /\ Active(OtherSide(side)) # Null

(***************************************************************************)
(* C7                                                                      *)
(***************************************************************************)
C7_Bounded == \A side \in TurnState : Score(side) \in 0..WinScore
C7_Monotonic == \A side \in TurnState : Score(side)' >= Score(side)

C8_WinnerIffFinished ==
    /\ winner # NullId <=> status = "finished"
    /\ winner # NullId => winner \in {HostId, guest}

\* A finished game the guest has won.
C8_Witness ==
    /\ status = "finished"
    /\ guest # HostId
    /\ winner = guest

(***************************************************************************)
(* C9                                                                      *)
(***************************************************************************)
\* C9: in every reachable state, status is finished if and only if some
\* player's score equals 3; that player is the winner and the other
\* player's score is below 3.
C9_FinishedIffThree ==
    /\ status = "finished" <=> \E side \in TurnState : Score(side) = WinScore
    /\ \A side \in TurnState :
          Score(side) = WinScore
              => /\ winner = PlayerOf(Game, side).socketId
                 /\ Score(OtherSide(side)) < WinScore

\* A finished game the host has won 3 points to 2.
C9_Witness ==
    /\ status = "finished"
    /\ Score("host") = WinScore
    /\ Score("guest") = WinScore - 1
    /\ winner = HostId

(***************************************************************************)
(* C10                                                                     *)
(***************************************************************************)
\* The score of the player who made call c, in game g.
ScoreOf(g, c) == getPlayer(g, c.by).score

\* C10: a successful attack that brings the attacker's score to 3 sets
\* status to finished and winner to the attacker's id and does not flip the
\* turn; a successful attack that leaves the attacker's score below 3, the
\* defender's unit defeated or not, leaves status playing and flips the
\* turn to the other player.
C10_AttackOutcome ==
    \A c \in Calls :
        LET r == Apply(Game, c)
            after == r.game
        IN  (c.op = "attack" /\ ~Failed(r)) =>
                IF ScoreOf(after, c) = WinScore
                THEN /\ after.status = "finished"
                     /\ after.winner = c.by
                     /\ after.currentTurn = currentTurn
                ELSE /\ ScoreOf(after, c) < WinScore
                     /\ after.status = "playing"
                     /\ after.winner = NullId
                     /\ after.currentTurn = OtherSide(currentTurn)

\* An attack is about to bring the attacker's score from 2 to 3.
C10_Witness ==
    \E c \in Calls :
        /\ c.op = "attack"
        /\ ~Failed(Apply(Game, c))
        /\ ScoreOf(Game, c) = WinScore - 1
        /\ ScoreOf(Apply(Game, c).game, c) = WinScore

(***************************************************************************)
(* C11                                                                     *)
(***************************************************************************)
\* The side a socket id resolves to holds the turn in a game in play.
HoldsTurn(socketId) ==
    /\ status = "playing"
    /\ getPlayer(Game, socketId) # Null
    /\ currentTurn = getPlayerTurn(Game, socketId)

\* C11: attack by the turn holder fails with "Vous n'avez pas de carte
\* active pour attaquer" when the attacker has no active unit, and otherwise
\* with "L'adversaire n'a pas de carte active a attaquer" when the defender
\* has none; an attack succeeds only where both players have an active unit.
C11_AttackNeedsBothUnits ==
    \A c \in Calls :
        (c.op = "attack" /\ HoldsTurn(c.by)) =>
            LET r == Apply(Game, c)
                attacker == getPlayer(Game, c.by)
                defender == getOpponent(Game, c.by)
            IN  IF attacker.activeCard = Null
                THEN /\ Failed(r)
                     /\ ErrorText(r) = "Vous n'avez pas de carte active pour attaquer"
                ELSE IF defender.activeCard = Null
                THEN /\ Failed(r)
                     /\ ErrorText(r) = "L'adversaire n'a pas de carte active a attaquer"
                ELSE ~Failed(r)

\* After a knock-out: the turn holder has a unit, the other player's board
\* is empty again, and points have been scored.
C11_Witness ==
    /\ Started
    /\ status = "playing"
    /\ Active(currentTurn) # Null
    /\ Active(OtherSide(currentTurn)) = Null
    /\ Score(currentTurn) > 0

(***************************************************************************)
(* C12                                                                     *)
(***************************************************************************)
\* C12: for every attack/defense pair and every pair of types, the damage
\* of an attack equals max(1, floor((attack - defense) * multiplier)), the
\* product being an integer, and is at least 1 even when defense exceeds
\* attack.
C12_DamageFormula ==
    damageCall.done =>
        LET product == (damageCall.attackerAttack - damageCall.defenderDefense)
                           * damageCall.multiplier
        IN  /\ damageCall.damage = (IF product > 1 THEN product ELSE 1)
            /\ damageCall.damage >= 1

\* A computed attack of a weak attacker on a strong defender, with the
\* defender's weakness: the product is negative.
C12_Witness ==
    /\ damageCall.done
    /\ damageCall.defenderDefense > damageCall.attackerAttack
    /\ damageCall.multiplier = 2
    /\ damageCall.damage = 1

(***************************************************************************)
(* C13                                                                     *)
(***************************************************************************)
\* The damage of the same attack and defense made by an attacker of type t.
DamageAs(t) ==
    calculateDamage(damageCall.attackerAttack, t,
                    damageCall.defenderDefense, damageCall.defenderType)

\* The call was made with the defender's weakness as the attacker's type.
SuperEffective ==
    /\ damageCall.done
    /\ damageCall.attackerType = getWeakness(damageCall.defenderType)

\* The attacker types that are not the defender's weakness: multiplier 1.
NeutralTypes == PokemonType \ {getWeakness(damageCall.defenderType)}

\* C13 as stated: for equal attack and defense inputs, the damage computed
\* when the attacker's type equals the defender's weakness is exactly 2
\* times the damage computed with multiplier 1, for every attack/defense
\* pair.
C13_WeaknessDoubles ==
    SuperEffective =>
        \A t \in NeutralTypes : damageCall.damage = 2 * DamageAs(t)

\* C13 as the code has it: the damage is doubled for every attack above the
\* defense; for an attack not above the defense both damages are the
\* minimum of 1.
C13_WeaknessDoublesAboveDefense ==
    SuperEffective =>
        \A t \in NeutralTypes :
            IF damageCall.attackerAttack > damageCall.defenderDefense
            THEN damageCall.damage = 2 * DamageAs(t)
            ELSE damageCall.damage = 1 /\ DamageAs(t) = 1

\* A super-effective attack above the defense: the doubled case.
C13_Witness ==
    /\ SuperEffective
    /\ damageCall.attackerAttack > damageCall.defenderDefense + 1
    /\ damageCall.damage > 2

(***************************************************************************)
(* C14                                                                     *)
(***************************************************************************)
\* C14: getWeakness maps each of the 18 types to one type different from
\* itself, the one typeWeaknessTable asserts, and the multiplier is 2
\* exactly when the attacker's type is the defender's weakness and 1
\* otherwise, for all 18 x 18 pairs of types.
C14_WeaknessTable ==
    damageCall.done =>
        /\ damageCall.weakness = typeWeaknessTable[damageCall.defenderType]
        /\ damageCall.weakness \in PokemonType \ {damageCall.defenderType}
        /\ damageCall.multiplier \in {1, 2}
        /\ damageCall.multiplier = 2
              <=> damageCall.attackerType = typeWeaknessTable[damageCall.defenderType]

\* The last entry of the table, looked up and applied: Poison attacks Fairy.
C14_Witness ==
    /\ damageCall.done
    /\ damageCall.defenderType = "Fairy"
    /\ damageCall.attackerType = "Poison"
    /\ damageCall.weakness = "Poison"
    /\ damageCall.multiplier = 2

(***************************************************************************)
(* C15                                                                     *)
(***************************************************************************)
\* The playCard calls of Calls made by one connection.
PlayCalls(socketId) == {c \in Calls : c.op = "playCard" /\ c.by = socketId}

\* C15: playCard by the turn holder fails with "Index de carte invalide"
\* when the index is outside [0, |hand|) and, the index being valid, with
\* "Vous avez deja une carte active sur le board" when a unit is already
\* active; so a playCard succeeds only onto an empty board, never replaces
\* an active unit, and a second playCard by the same player right after a
\* successful one fails.
C15_PlayCardGuards ==
    \A socketId \in Sockets :
        HoldsTurn(socketId) =>
            \A c \in PlayCalls(socketId) :
                LET r == Apply(Game, c)
                    player == getPlayer(Game, socketId)
                IN  IF c.cardIndex < 0 \/ c.cardIndex >= Len(player.hand)
                    THEN /\ Failed(r)
                         /\ ErrorText(r) = "Index de carte invalide"
                         /\ r.game = Game
                    ELSE IF player.activeCard # Null
                    THEN /\ Failed(r)
                         /\ ErrorText(r) = "Vous avez deja une carte active sur le board"
                         /\ r.game = Game
                    ELSE /\ ~Failed(r)
                         /\ getPlayer(r.game, socketId).activeCard # Null
                         /\ \A again \in PlayCalls(socketId) :
                               /\ Failed(Apply(r.game, again))
                               /\ Apply(r.game, again).game = r.game

\* The turn holder has a damaged unit on the board and cards in hand: every
\* index of the hand is refused for the unit, every other one for the index.
C15_Witness ==
    /\ Started
    /\ status = "playing"
    /\ Active(currentTurn) # Null
    /\ Active(currentTurn).currentHp < Active(currentTurn).card.hp
    /\ Len(PlayerOf(Game, currentTurn).hand) > 1

(***************************************************************************)
(* C16                                                                     *)
(***************************************************************************)
\* C16: a successful playCard(cardIndex) removes exactly the card at
\* cardIndex from the player's hand, keeps the other hand cards in their
\* order, installs that card as the active unit with currentHp equal to the
\* card's hp, and changes nothing else: the player's deck and score, the
\* opponent, the turn, the status, the winner.
C16_PlayCardEffect ==
    \A c \in Calls :
        LET r == Apply(Game, c)
        IN  (c.op = "playCard" /\ ~Failed(r)) =>
                LET before == getPlayer(Game, c.by)
                    after == getPlayer(r.game, c.by)
                    k == c.cardIndex + 1
                IN  /\ Len(after.hand) = Len(before.hand) - 1
                    /\ \A j \in 1..Len(after.hand) :
                          after.hand[j] = IF j < k THEN before.hand[j]
                                                   ELSE before.hand[j + 1]
                    /\ before.activeCard = Null
                    /\ after.activeCard.card = before.hand[k]
                    /\ after.activeCard.currentHp = before.hand[k].hp
                    /\ after.deck = before.deck
                    /\ after.score = before.score
                    /\ after.socketId = before.socketId
                    /\ getOpponent(r.game, c.by) = getOpponent(Game, c.by)
                    /\ r.game.currentTurn = currentTurn
                    /\ r.game.status = status
                    /\ r.game.winner = winner
                    /\ r.game.guest = guest

\* A card from the middle of a full hand is about to be played by a player
\* who has scored, against an opponent with a unit on the board.
C16_Witness ==
    /\ Started
    /\ status = "playing"
    /\ Len(PlayerOf(Game, currentTurn).hand) = MaxHand
    /\ Active(currentTurn) = Null
    /\ Active(OtherSide(currentTurn)) # Null
    /\ Score(OtherSide(currentTurn)) > 0
    /\ \E c \in Calls :
          c.op = "playCard" /\ c.cardIndex = 2 /\ ~Failed(Apply(Game, c))

(***************************************************************************)
(* C17                                                                     *)
(***************************************************************************)
Min(a, b) == IF a <= b THEN a ELSE b

\* C17: drawCards by a resolved player of a game in play never fails and
\* leaves |hand| = min(5, |hand| + |deck|) of the state before: the hand
\* keeps its cards and gains the drawn ones, which are exactly the cards
\* removed from the player's deck (its last ones, the last first); it is a
\* successful no-op when the hand holds 5 cards or the deck is empty; and
\* it changes nothing of the opponent, the active units, the scores, the
\* turn, the status or the winner.
C17_DrawCardsEffect ==
    \A c \in Calls :
        (c.op = "drawCards" /\ status = "playing" /\ getPlayer(Game, c.by) # Null) =>
            LET r == Apply(Game, c)
                before == getPlayer(Game, c.by)
                after == getPlayer(r.game, c.by)
                n == Len(after.hand) - Len(before.hand)
            IN  /\ ~Failed(r)
                /\ Len(after.hand) = Min(MaxHand, Len(before.hand) + Len(before.deck))
                /\ SubSeq(after.hand, 1, Len(before.hand)) = before.hand
                /\ Len(after.deck) = Len(before.deck) - n
                /\ after.deck = SubSeq(before.deck, 1, Len(after.deck))
                /\ \A j \in 1..n :
                      after.hand[Len(before.hand) + j]
                          = before.deck[Len(before.deck) + 1 - j]
                /\ (Len(before.hand) = MaxHand \/ Len(before.deck) = 0)
                      => r.game = Game
                /\ after.activeCard = before.activeCard
                /\ after.score = before.score
                /\ after.socketId = before.socketId
                /\ getOpponent(r.game, c.by) = getOpponent(Game, c.by)
                /\ r.game.currentTurn = currentTurn
                /\ r.game.status = status
                /\ r.game.winner = winner
                /\ r.game.guest = guest

\* A player whose deck runs out before the hand is full: a draw is about to
\* take the last cards of the deck and leave the hand below 5.
C17_Witness ==
    /\ Started
    /\ status = "playing"
    /\ \E side \in TurnState :
          /\ Len(PlayerOf(Game, side).deck) > 0
          /\ Len(PlayerOf(Game, side).hand) + Len(PlayerOf(Game, side).deck) < MaxHand

(***************************************************************************)
(* C18                                                                     *)
(***************************************************************************)
\* C18: Game.drawCards for a resolved player of a game in play succeeds
\* whether or not that player holds the turn: called by the player the turn
\* pointer is not on, it returns the two state updates and fills the hand.
C18_DrawOutOfTurn ==
    \A c \in Calls :
        (/\ c.op = "drawCards"
         /\ status = "playing"
         /\ getPlayer(Game, c.by) # Null
         /\ currentTurn # getPlayerTurn(Game, c.by))
        => LET r == Apply(Game, c)
               before == getPlayer(Game, c.by)
               after == getPlayer(r.game, c.by)
           IN  /\ ~Failed(r)
               /\ Len(r.events) = 2
               /\ \A i \in 1..2 : r.events[i].type = "gameStateUpdated"
               /\ Len(after.hand) = Min(MaxHand, Len(before.hand) + Len(before.deck))
               /\ r.game.currentTurn = currentTurn

\* The turn is on the host, who has placed a unit; the guest has not drawn
\* yet and is about to fill its hand.
C18_Witness ==
    /\ Started
    /\ status = "playing"
    /\ guest # HostId
    /\ currentTurn = "host"
    /\ Active("host") # Null
    /\ Len(guestPlayer.hand) = 0
    /\ \E c \in Calls :
          /\ c.op = "drawCards" /\ c.by = guest
          /\ Len(Apply(Game, c).game.guestPlayer.hand) = MaxHand

(***************************************************************************)
(* C19                                                                     *)
(***************************************************************************)
\* C19: while status is waiting or finished, drawCards, playCard and attack
\* each return the single error "Game not started", addressed to the
\* caller's side, and leave the game unchanged.  In a finished game a join
\* is refused too and changes nothing, while getStateForPlayer still
\* answers both players with the final status and winner.
C19_NotStarted ==
    /\ status \in {"waiting", "finished"}
          => \A c \in Calls :
                LET r == Apply(Game, c)
                IN  /\ Len(r.events) = 1
                    /\ r.events[1].type = "error"
                    /\ r.events[1].target = (IF isHost(c.by) THEN "host" ELSE "guest")
                    /\ ErrorText(r) = "Game not started"
                    /\ r.game = Game
    /\ status = "finished"
          => /\ \A s \in Joiners :
                   \A o \in Game_startWithGuest(Game, s) :
                       ~o.result.success /\ o.game = Game
             /\ \A socketId \in {HostId, guest} :
                   LET view == getStateForPlayer(Game, socketId)
                   IN  /\ view # Null
                       /\ view.status = "finished"
                       /\ view.winner = winner
                       /\ view.yourBoard.hand = getPlayer(Game, socketId).hand

\* A finished game in which the loser holds the turn with an empty board,
\* cards in hand and a card left to draw: each of its three calls would be
\* served or refused for another reason if the game were still in play.
C19_Witness ==
    /\ status = "finished"
    /\ \E side \in TurnState :
          /\ currentTurn = side
          /\ winner # PlayerOf(Game, side).socketId
          /\ Active(side) = Null
          /\ Len(PlayerOf(Game, side).hand) \in 1..(MaxHand - 1)
          /\ Len(PlayerOf(Game, side).deck) > 0
          /\ Active(OtherSide(side)) # Null

(***************************************************************************)
(* C20                                                                     *)
(***************************************************************************)
\* A step that leaves status alone; once the game has left waiting it also
\* leaves the guest and the two players' connection ids alone.
C20_Stays ==
    /\ status' = status
    /\ status # "waiting"
          => /\ guest' = guest
             /\ hostPlayer'.socketId = hostPlayer.socketId
             /\ guestPlayer'.socketId = guestPlayer.socketId

\* waiting -> playing: the step of the accepted join, which seats the guest
\* and builds the two players.
C20_Starts ==
    /\ status = "waiting" /\ status' = "playing"
    /\ guest = NullId /\ guest' # NullId
    /\ hostPlayer = Null /\ hostPlayer' # Null
    /\ guestPlayer = Null /\ guestPlayer' # Null

\* playing -> finished: the step that sets the winner.
C20_Ends ==
    /\ status = "playing" /\ status' = "finished"
    /\ winner = NullId /\ winner' \in {HostId, guest}
    /\ guest' = guest

\* C20: status only moves forward.  Every step either keeps status, or moves
\* it from waiting to playing (on the accepted guest join), or from playing
\* to finished; hence each of the two moves happens at most once and status
\* never goes from finished to playing or waiting, nor from playing to
\* waiting.
C20_StatusForward == [][C20_Stays \/ C20_Starts \/ C20_Ends]_vars

\* A finished game won by the guest 3 points to 0: status has made both of
\* its moves.
C20_Witness ==
    /\ status = "finished"
    /\ guest # HostId
    /\ Score("guest") = WinScore
    /\ Score("host") = 0

(***************************************************************************)
(* C21                                                                     *)
(***************************************************************************)
\* What getStateForPlayer has to answer the player of a side of game g.
C21_Expected(g, side) ==
    LET me == PlayerOf(g, side)
        opponent == PlayerOf(g, OtherSide(side))
    IN  [roomId |-> RoomId,
         status |-> g.status,
         winner |-> g.winner,
         currentTurn |-> g.currentTurn,
         isYourTurn |-> (g.currentTurn = side),
         yourBoard |-> [activeCard |-> me.activeCard, hand |-> me.hand,
                        deckCount |-> Len(me.deck), score |-> me.score],
         opponentBoard |-> [activeCard |-> opponent.activeCard,
                            handCount |-> Len(opponent.hand),
                            deckCount |-> Len(opponent.deck),
                            score |-> opponent.score]]

\* C21: in a game of two connections, getStateForPlayer(X) reports the
\* current state: yourBoard is X's hand, active unit, deck size and score,
\* opponentBoard is the opponent's active unit, hand count, deck size and
\* score, and isYourTurn is true exactly when currentTurn is X's side, hence
\* for exactly one of the two participants.  The views a successful call
\* returns are those of the game as the call left it.
C21_FreshProjection ==
    (Started /\ guest # HostId) =>
        /\ \A side \in TurnState :
              getStateForPlayer(Game, PlayerOf(Game, side).socketId)
                  = C21_Expected(Game, side)
        /\ getStateForPlayer(Game, HostId).isYourTurn
              # getStateForPlayer(Game, guest).isYourTurn
        /\ \A c \in Calls :
              LET r == Apply(Game, c)
              IN  ~Failed(r) =>
                     \A i \in DOMAIN r.events :
                        r.events[i].type = "gameStateUpdated"
                            => r.events[i].data.gameState
                                  = C21_Expected(r.game, r.events[i].target)

\* The turn is on the guest, both players have a unit on the board, a point
\* has been scored and the two hands differ in size.
C21_Witness ==
    /\ Started
    /\ guest # HostId
    /\ status = "playing"
    /\ currentTurn = "guest"
    /\ Active("host") # Null /\ Active("guest") # Null
    /\ Score("host") + Score("guest") > 0
    /\ Len(hostPlayer.hand) # Len(guestPlayer.hand)
    /\ getStateForPlayer(Game, guest).isYourTurn

(***************************************************************************)
(* C22                                                                     *)
(***************************************************************************)
\* The connection an event for a side of game g is sent to.
Addressee(g, target) == IF target = "host" THEN HostId ELSE g.guest

\* C22: every failed drawCards, playCard or attack returns exactly one
\* event, of type error, addressed to the side of the connection that made
\* the call and to nobody else: never to a player who did not act.
C22_ErrorToActor ==
    \A c \in Calls :
        LET r == Apply(Game, c)
        IN  Failed(r) =>
               /\ Len(r.events) = 1
               /\ r.events[1].type = "error"
               /\ r.events[1].target \in TurnState
               /\ Addressee(Game, r.events[1].target) = c.by

\* What the code guarantees: a failed call returns exactly one event, an
\* error and nothing else, on the host side for the host's connection and on
\* the guest side for every other connection; it reaches its sender
\* whenever the sender is one of the two players.
C22_ErrorToCallerSide ==
    \A c \in Calls :
        LET r == Apply(Game, c)
        IN  Failed(r) =>
               /\ Len(r.events) = 1
               /\ r.events[1].type = "error"
               /\ r.events[1].target = (IF isHost(c.by) THEN "host" ELSE "guest")
               /\ getPlayer(Game, c.by) # Null
                     => Addressee(Game, r.events[1].target) = c.by

\* A game in play between two connections in which a third connection's
\* drawCards fails with an error addressed to the guest.
C22_Witness ==
    /\ Started
    /\ status = "playing"
    /\ guest # HostId
    /\ \E c \in Calls :
          /\ c.op = "drawCards"
          /\ c.by \notin {HostId, guest}
          /\ Failed(Apply(Game, c))
          /\ Apply(Game, c).events[1].target = "guest"
          /\ Addressee(Game, "guest") # c.by

(***************************************************************************)
(* C23                                                                     *)
(***************************************************************************)
\* The game-ended events of a batch.
GameEnded(r) == {i \in DOMAIN r.events : r.events[i].type = "gameEnded"}

\* C23: a call returns a game-ended event if and only if it is the attack
\* that moves status from playing to finished; there is one such event in
\* the batch, addressed to both sides, and its winner is the winner the game
\* records, the attacker.  A finished game returns no game-ended event any
\* more, so a game produces at most one.
C23_GameEndedOnce ==
    \A c \in Calls :
        LET r == Apply(Game, c)
        IN  /\ GameEnded(r) # {}
                <=> (c.op = "attack" /\ status = "playing" /\ r.game.status = "finished")
            /\ GameEnded(r) # {}
                => /\ Cardinality(GameEnded(r)) = 1
                   /\ \A i \in GameEnded(r) :
                         /\ r.events[i].target = "both"
                         /\ r.events[i].data.winner = r.game.winner
                         /\ r.events[i].data.winner = c.by
                   /\ winner = NullId
            /\ status = "finished" => GameEnded(r) = {}

\* The guest holds the turn with 2 points and a unit that defeats the
\* host's: its attack returns the game-ended event.
C23_Witness ==
    /\ status = "playing"
    /\ guest # HostId
    /\ currentTurn = "guest"
    /\ Score("guest") = WinScore - 1
    /\ \E c \in Calls :
          /\ c.op = "attack" /\ c.by = guest
          /\ GameEnded(Apply(Game, c)) # {}
          /\ Apply(Game, c).game.winner = guest

(***************************************************************************)
(* C27                                                                     *)
(***************************************************************************)
\* The calls of the two players that are accepted and change the game.
Moves ==
    {c \in Calls : /\ c.by \in {HostId, guest}
                   /\ ~Failed(Apply(Game, c))
                   /\ Apply(Game, c).game # Game}

\* C27: a game in play never gets stuck: in every reachable state with
\* status playing, some drawCards, playCard or attack by one of the two
\* players is accepted and changes the state.
C27_NeverStuck == status = "playing" => Moves # {}

\* A game in play, between two connections, in which nobody has scored and
\* no call of either player is both accepted and a change: both hands are
\* full, the host's unit is on the board, and the guest, who never holds
\* the turn, has none.
C27_Witness ==
    /\ status = "playing"
    /\ guest # HostId
    /\ winner = NullId
    /\ Score("host") = 0 /\ Score("guest") = 0
    /\ Moves = {}
    /\ Len(hostPlayer.hand) = MaxHand /\ Len(guestPlayer.hand) = MaxHand
    /\ Active("host") # Null /\ Active("guest") = Null

(***************************************************************************)
(* C30                                                                     *)
(***************************************************************************)
\* The answers that say the caller is none of the two players.
PlayerNotFoundTexts ==
    {"Joueur non trouve", "Erreur lors de la recuperation des joueurs"}

\* In Game: playCard and attack by a connection that is neither player are
\* answered with the player-not-found error.
C30_InGame ==
    status = "playing" =>
        \A c \in Calls :
            (c.op \in {"playCard", "attack"} /\ c.by \notin {HostId, guest})
                => LET r == Apply(Game, c)
                   IN  /\ Failed(r)
                       /\ ErrorText(r) \in PlayerNotFoundTexts
                       /\ r.game = Game

\* The strangers of a GameService: the ids that match neither player.
ServiceStrangers == Sockets \ {service.hostSocketId, service.guestSocketId}

\* In GameService: the same.
C30_InGameService ==
    service # Null =>
        \A s \in ServiceStrangers :
            /\ \A i \in CardIndexes :
                  LET r == GameService_playCard(service, s, i)
                  IN  ~r.success /\ r.message.text \in PlayerNotFoundTexts
            /\ LET r == GameService_attack(service, s)
               IN  ~r.success /\ r.message.text \in PlayerNotFoundTexts

\* C30: existence is checked before turn ownership: playCard and attack
\* called with an id that matches neither player fail with the
\* player-not-found error, never with the not-your-turn error, in Game and
\* in GameService.
C30_ExistenceFirst == C30_InGame /\ C30_InGameService

\* What GameService does: it compares the caller with currentTurn first, so
\* an id that matches neither player is told that it is not its turn and
\* the state is left alone.
C30_ServiceTurnFirst ==
    service # Null =>
        \A s \in ServiceStrangers :
            /\ \A i \in CardIndexes :
                  LET r == GameService_playCard(service, s, i)
                  IN  /\ ~r.success
                      /\ r.message.text = "Ce n'est pas votre tour"
                      /\ r.state = service
            /\ LET r == GameService_attack(service, s)
               IN  /\ ~r.success
                   /\ r.message.text = "Ce n'est pas votre tour"
                   /\ r.state = service

\* A GameService for two connections, the host's hand drawn and its unit on
\* the board, in which a third connection's playCard is answered with the
\* not-your-turn error.
C30_Witness ==
    /\ service # Null
    /\ service.guestSocketId # service.hostSocketId
    /\ service.host.activeCard # Null
    /\ Len(service.host.hand) = MaxHand - 1
    /\ \E s \in ServiceStrangers :
          GameService_playCard(service, s, 0).message.text = "Ce n'est pas votre tour"

(***************************************************************************)
(* Game as the Lobby-based SocketHandler builds it (the class Game that    *)
(* is always constructed with its two players): the turn is a reference    *)
(* to one of the two Player objects.                                       *)
(***************************************************************************)
\* new Player(deck), the deck already shuffled.
NewDeckPlayer(deck) ==
    [hand |-> <<>>, deck |-> deck, activeCard |-> Null, score |-> 0]

\* new Game(id, hostSocketId, hostDeck, guestSocketId, guestDeck)
PlayingGame_new(hostSocketId, hostDeck, guestSocketId, guestDeck) ==
    [hostSocketId |-> hostSocketId,
     guestSocketId |-> guestSocketId,
     hostPlayer |-> NewDeckPlayer(hostDeck),
     guestPlayer |-> NewDeckPlayer(guestDeck),
     currentPlayer |-> "host",
     status |-> "playing",
     winner |-> NullId]

\* A lookup that takes every connection other than the host's for the guest.
getPlayerBySocketId_guestByDefault(g, socketId) ==
    IF socketId = g.hostSocketId THEN "host" ELSE "guest"

\* getPlayerBySocketId and getOpponentBySocketId, as the name of the object.
getPlayerBySocketId(g, socketId) ==
    IF socketId = g.hostSocketId THEN "host"
    ELSE IF socketId = g.guestSocketId THEN "guest"
    ELSE "none"

getOpponentBySocketId(g, socketId) ==
    IF socketId = g.hostSocketId THEN "guest"
    ELSE IF socketId = g.guestSocketId THEN "host"
    ELSE "none"

\* getSocketIds and SocketHandler.getOpponentSocketId
getOpponentSocketId(g, socketId) ==
    IF socketId = g.hostSocketId THEN g.guestSocketId ELSE g.hostSocketId

PlayingGame_hasPlayer(g, socketId) ==
    g.hostSocketId = socketId \/ g.guestSocketId = socketId

PlayingGame_player(g, side) == IF side = "host" THEN g.hostPlayer ELSE g.guestPlayer

PlayingGame_with(g, side, p) ==
    IF side = "host" THEN [g EXCEPT !.hostPlayer = p] ELSE [g EXCEPT !.guestPlayer = p]

PlayingGame_refused(g, text) ==
    [game |-> g, success |-> FALSE, message |-> [text |-> text],
     notifyOpponent |-> Null, gameEnded |-> FALSE]

PlayingGame_drawCards(g, socketId) ==
    LET side == getPlayerBySocketId(g, socketId)
    IN  IF side = "none" THEN PlayingGame_refused(g, "Joueur non trouve")
        ELSE IF side # g.currentPlayer
        THEN PlayingGame_refused(g, "Ce n'est pas votre tour")
        ELSE LET result == Player_drawCards(PlayingGame_player(g, side))
             IN  [game |-> PlayingGame_with(g, side, result.player),
                  success |-> TRUE,
                  message |-> result.message,
                  notifyOpponent |-> [text |-> "L'adversaire a pioche des cartes"],
                  gameEnded |-> FALSE]

PlayingGame_playCard(g, socketId, cardIndex) ==
    LET side == getPlayerBySocketId(g, socketId)
    IN  IF side = "none" THEN PlayingGame_refused(g, "Joueur non trouve")
        ELSE IF side # g.currentPlayer
        THEN PlayingGame_refused(g, "Ce n'est pas votre tour")
        ELSE LET result == Player_playCard(PlayingGame_player(g, side), cardIndex)
             IN  IF ~result.success
                 THEN [game |-> g, success |-> FALSE, message |-> result.message,
                       notifyOpponent |-> Null, gameEnded |-> FALSE]
                 ELSE [game |-> PlayingGame_with(g, side, result.player),
                       success |-> TRUE,
                       message |-> result.message,
                       notifyOpponent |-> [text |-> "L'adversaire a joue une carte"],
                       gameEnded |-> FALSE]

PlayingGame_switchTurn(g) ==
    [g EXCEPT !.currentPlayer = IF @ = "host" THEN "guest" ELSE "host"]

PlayingGame_attack(g, attackerSocketId) ==
    LET attackerSide == getPlayerBySocketId(g, attackerSocketId)
        defenderSide == getOpponentBySocketId(g, attackerSocketId)
    IN  IF attackerSide = "none" \/ defenderSide = "none"
        THEN PlayingGame_refused(g, "Erreur lors de la recuperation des joueurs")
        ELSE IF attackerSide # g.currentPlayer
        THEN PlayingGame_refused(g, "Ce n'est pas votre tour")
        ELSE LET result == Player_attack(PlayingGame_player(g, attackerSide),
                                         PlayingGame_player(g, defenderSide))
                 fought == PlayingGame_with(
                               PlayingGame_with(g, attackerSide, result.self),
                               defenderSide, result.opponent)
             IN  IF ~result.success
                 THEN [game |-> g, success |-> FALSE, message |-> result.message,
                       notifyOpponent |-> Null, gameEnded |-> FALSE]
                 ELSE IF result.gameWon
                 THEN [game |-> [fought EXCEPT !.status = "finished",
                                               !.winner = attackerSocketId],
                       success |-> TRUE, message |-> result.message,
                       notifyOpponent |-> result.message, gameEnded |-> TRUE]
                 ELSE [game |-> PlayingGame_switchTurn(fought),
                       success |-> TRUE, message |-> result.message,
                       notifyOpponent |-> result.message, gameEnded |-> FALSE]

(***************************************************************************)
(* Lobby (src/models/lobby.model.ts).                                      *)
(***************************************************************************)
\* new Lobby(id, hostSocketId, hostUserId, hostDeckId)
NewLobby(hostSocketId) == [host |-> hostSocketId, guest |-> NullId]

Lobby_isFull(lobby) == lobby.guest # NullId

\* An addGuest that seats whoever asks, full or not.
Lobby_addGuest_unchecked(lobby, socketId) ==
    [lobby |-> [lobby EXCEPT !.guest = socketId], added |-> TRUE]

Lobby_addGuest(lobby, socketId) ==
    IF Lobby_isFull(lobby)
    THEN [lobby |-> lobby, added |-> FALSE]
    ELSE [lobby |-> [lobby EXCEPT !.guest = socketId], added |-> TRUE]

Lobby_hasPlayer(lobby, socketId) ==
    lobby.host = socketId \/ lobby.guest = socketId

(***************************************************************************)
(* SocketHandler (src/sockets/game.socket.ts): the maps lobbies and games, *)
(* the connected sockets, and the joinRoom handlers suspended at an await. *)
(* A Lobby object lives on after it left the map, for the handlers that    *)
(* hold it.                                                                *)
(***************************************************************************)
\* Room ids, in the order uuidv4() hands them out.
Rooms == {"r1", "r2"}

Idle == [pc |-> "idle", roomId |-> "none"]

\* new SocketHandler(httpServer), every client connected.
NewServer ==
    [lobbyObjects |-> [r \in Rooms |-> Null],
     lobbies |-> {},
     games |-> [r \in Rooms |-> Null],
     joins |-> [s \in Sockets |-> Idle],
     connected |-> Sockets,
     started |-> [r \in Rooms |-> 0],
     notices |-> [r \in Rooms |-> <<>>],
     timers |-> {},
     moves |-> 0]

emitTo(socketId, type, text) == [to |-> socketId, type |-> type, text |-> text]

Answer(h, socketId, text) ==
    [server |-> h, emits |-> <<emitTo(socketId, "error", text)>>]

\* getAvailableLobbies: the listed lobbies that are not full.
getAvailableLobbies(h) ==
    {r \in h.lobbies : ~Lobby_isFull(h.lobbyObjects[r])}

\* handleCreateRoom once its deck lookup has returned a deck of the
\* required size: the lobby is created under a fresh id and listed.
handleCreateRoom(h, socketId, lobbyId) ==
    [server |-> [h EXCEPT !.lobbyObjects[lobbyId] = NewLobby(socketId),
                          !.lobbies = @ \cup {lobbyId}],
     emits |-> <<emitTo(socketId, "roomCreated", lobbyId),
                 emitTo("all", "roomsListUpdated", "")>>]

\* handleJoinRoom up to its first await: the lobby is looked up and has to
\* have room; the handler keeps the Lobby object and waits for its deck.
handleJoinRoom_lookup(h, socketId, roomId) ==
    IF roomId \notin h.lobbies THEN Answer(h, socketId, "Room non trouvee")
    ELSE IF Lobby_isFull(h.lobbyObjects[roomId])
    THEN Answer(h, socketId, "Cette room est deja complete")
    ELSE [server |-> [h EXCEPT !.joins[socketId] = [pc |-> "deck", roomId |-> roomId]],
          emits |-> <<>>]

\* What a deck lookup returns.
DeckLookups == {"valid", "missing", "wrongSize"}

\* handleJoinRoom from the guest's deck to its second await: the guest is
\* added to the Lobby object the handler holds.
handleJoinRoom_deck(h, socketId, deck) ==
    LET roomId == h.joins[socketId].roomId
        done == [h EXCEPT !.joins[socketId] = Idle]
        result == Lobby_addGuest(h.lobbyObjects[roomId], socketId)
    IN  IF deck = "missing"
        THEN Answer(done, socketId, "Deck non trouve ou vous n'en etes pas le proprietaire")
        ELSE IF deck = "wrongSize"
        THEN Answer(done, socketId, "Le deck doit contenir exactement 20 cartes")
        ELSE IF ~result.added
        THEN Answer(done, socketId, "Impossible de rejoindre cette room")
        ELSE [server |-> [h EXCEPT !.lobbyObjects[roomId] = result.lobby,
                                   !.joins[socketId] = [pc |-> "hostDeck",
                                                        roomId |-> roomId]],
              emits |-> <<>>]

\* handleJoinRoom from the host's deck to its end: the Game is built and
\* registered under the room id and the lobby leaves the map.
handleJoinRoom_hostDeck(h, socketId, hostDeckFound, hostDeck, guestDeck) ==
    LET roomId == h.joins[socketId].roomId
        done == [h EXCEPT !.joins[socketId] = Idle]
        host == h.lobbyObjects[roomId].host
        guest_ == h.lobbyObjects[roomId].guest
        game == PlayingGame_new(host, hostDeck, guest_, guestDeck)
    IN  IF ~hostDeckFound THEN Answer(done, socketId, "Deck de l'hote non trouve")
        ELSE [server |-> [done EXCEPT !.games[roomId] = game,
                                      !.started[roomId] = @ + 1,
                                      !.lobbies = @ \ {roomId}],
              emits |-> <<emitTo(host, "gameStarted", roomId),
                          emitTo(guest_, "gameStarted", roomId),
                          emitTo("all", "roomsListUpdated", "")>>]

\* The rooms whose game a socket plays in.
GamesOf(h, socketId) ==
    {r \in Rooms : h.games[r] # Null /\ PlayingGame_hasPlayer(h.games[r], socketId)}

\* handleDisconnect without games.delete: the game stays in the map.
handleDisconnect_keepsGame(h, socketId) ==
    [h EXCEPT
        !.lobbies = {r \in @ : ~Lobby_hasPlayer(h.lobbyObjects[r], socketId)},
        !.notices = [r \in Rooms |->
                        IF r \in GamesOf(h, socketId)
                        THEN Append(@[r], getOpponentSocketId(h.games[r], socketId))
                        ELSE @[r]],
        !.connected = @ \ {socketId}]

\* handleDisconnect: the lobbies of the socket leave the map; each of its
\* games is deleted and the other player is sent opponentDisconnected,
\* which notices records per room.
handleDisconnect(h, socketId) ==
    LET gone == {r \in h.lobbies : Lobby_hasPlayer(h.lobbyObjects[r], socketId)}
        over == GamesOf(h, socketId)
    IN  [h EXCEPT
            !.lobbies = @ \ gone,
            !.games = [r \in Rooms |-> IF r \in over THEN Null ELSE @[r]],
            !.notices = [r \in Rooms |->
                            IF r \in over
                            THEN Append(@[r], getOpponentSocketId(h.games[r], socketId))
                            ELSE @[r]],
            !.connected = @ \ {socketId}]

\* What the three game handlers do with the result of the Game's method:
\* an error to the sender, or the updates to the sender and the opponent;
\* a won game is announced and its deletion scheduled.
Forward(h, socketId, roomId, result) ==
    IF ~result.success
    THEN [server |-> h, emits |-> <<emitTo(socketId, "error", result.message.text)>>]
    ELSE [server |-> [h EXCEPT !.games[roomId] = result.game,
                               !.timers = IF result.gameEnded THEN @ \cup {roomId} ELSE @],
          emits |-> <<emitTo(socketId, "gameStateUpdated", result.message.text),
                      emitTo(getOpponentSocketId(result.game, socketId),
                             "gameStateUpdated", result.message.text)>>
                    \o (IF result.gameEnded
                        THEN <<emitTo(socketId, "gameEnded", "Vous avez gagne !"),
                               emitTo(getOpponentSocketId(result.game, socketId),
                                      "gameEnded", "Vous avez perdu !")>>
                        ELSE <<>>)]

handleDrawCards(h, socketId, roomId) ==
    IF h.games[roomId] = Null THEN Answer(h, socketId, "Game not found")
    ELSE Forward(h, socketId, roomId, PlayingGame_drawCards(h.games[roomId], socketId))

handlePlayCard(h, socketId, roomId, cardIndex) ==
    IF h.games[roomId] = Null THEN Answer(h, socketId, "Game not found")
    ELSE Forward(h, socketId, roomId,
                 PlayingGame_playCard(h.games[roomId], socketId, cardIndex))

handleAttack(h, socketId, roomId) ==
    IF h.games[roomId] = Null THEN Answer(h, socketId, "Game not found")
    ELSE Forward(h, socketId, roomId, PlayingGame_attack(h.games[roomId], socketId))

\* The server alone: no Game, GameService or damage call of the other
\* specifications.
InitServer ==
    /\ guest = NullId
    /\ hostPlayer = Null
    /\ guestPlayer = Null
    /\ currentTurn = "host"
    /\ status = "waiting"
    /\ winner = NullId
    /\ damageCall = Null
    /\ service = Null
    /\ server = NewServer

ServerBecomes(h) ==
    /\ server' = h
    /\ UNCHANGED <<guest, hostPlayer, guestPlayer, currentTurn, status, winner,
                   damageCall, service>>

\* The ids not handed out yet, and the one uuidv4() hands out next.
FreshRooms == {r \in Rooms : server.lobbyObjects[r] = Null}

NextRoom == IF "r1" \in FreshRooms THEN "r1" ELSE "r2"

\* createRoom by a connected client; its deck lookup returns while the
\* client is connected.
CreateRoom(socketId) ==
    /\ socketId \in server.connected
    /\ FreshRooms # {}
    /\ \E after \in {handleCreateRoom(server, socketId, NextRoom).server} :
          ServerBecomes(after)

\* joinRoom by a connected client with no join of its own under way.
JoinRoom(socketId, roomId) ==
    /\ socketId \in server.connected
    /\ roomId \in Rooms
    /\ server.joins[socketId] = Idle
    /\ \E after \in {handleJoinRoom_lookup(server, socketId, roomId).server} :
          ServerBecomes(after)

\* The guest's deck lookup returns and the handler goes on.
JoinDeck(socketId, deck) ==
    /\ server.joins[socketId].pc = "deck"
    /\ deck \in DeckLookups
    /\ \E after \in {handleJoinRoom_deck(server, socketId, deck).server} :
          ServerBecomes(after)

\* The host's deck lookup returns and the handler goes on to its end.
JoinHostDeck(socketId, hostDeckFound) ==
    /\ server.joins[socketId].pc = "hostDeck"
    /\ hostDeckFound \in BOOLEAN
    /\ \E hostDeck \in Shuffles(StoreDeck), guestDeck \in Shuffles(StoreDeck) :
          \E after \in {handleJoinRoom_hostDeck(server, socketId, hostDeckFound,
                                                hostDeck, guestDeck).server} :
              ServerBecomes(after)

Disconnect(socketId) ==
    /\ socketId \in server.connected
    /\ \E after \in {handleDisconnect(server, socketId)} : ServerBecomes(after)

\* A game request is served; the requests that change a game are counted
\* and MaxMoves of them are followed.
Served(after) ==
    \/ after = server /\ ServerBecomes(after)
    \/ /\ after # server
       /\ server.moves < MaxMoves
       /\ ServerBecomes([after EXCEPT !.moves = @ + 1])

DrawCardsRequest(socketId, roomId) ==
    /\ socketId \in server.connected
    /\ roomId \in Rooms
    /\ \E after \in {handleDrawCards(server, socketId, roomId).server} : Served(after)

PlayCardRequest(socketId, roomId, cardIndex) ==
    /\ socketId \in server.connected
    /\ roomId \in Rooms
    /\ cardIndex \in CardIndexes
    /\ \E after \in {handlePlayCard(server, socketId, roomId, cardIndex).server} :
          Served(after)

AttackRequest(socketId, roomId) ==
    /\ socketId \in server.connected
    /\ roomId \in Rooms
    /\ \E after \in {handleAttack(server, socketId, roomId).server} : Served(after)

\* One lobby: clients create a single room, join it, play and disconnect
\* in any order, the join handlers interleaved at their awaits.
NextServer ==
    \/ \E s \in Sockets : FreshRooms = Rooms /\ CreateRoom(s)
    \/ \E s \in Sockets, r \in Rooms : JoinRoom(s, r)
    \/ \E s \in Sockets, d \in DeckLookups : JoinDeck(s, d)
    \/ \E s \in Sockets, f \in BOOLEAN : JoinHostDeck(s, f)
    \/ \E s \in Sockets : Disconnect(s)
    \/ \E s \in Sockets, r \in Rooms : DrawCardsRequest(s, r)
    \/ \E s \in Sockets, r \in Rooms, i \in CardIndexes : PlayCardRequest(s, r, i)
    \/ \E s \in Sockets, r \in Rooms : AttackRequest(s, r)

SpecServer == InitServer /\ [][NextServer]_vars

\* No join is suspended at an await.
NoJoinUnderWay == \A s \in Sockets : server.joins[s] = Idle

\* Two sessions side by side: one client creates the rooms, clients that
\* stay connected join them one join at a time with valid decks, and play.
NextSessions ==
    \/ \E s \in {HostId} : CreateRoom(s)
    \/ \E s \in Sockets, r \in Rooms : NoJoinUnderWay /\ JoinRoom(s, r)
    \/ \E s \in Sockets : JoinDeck(s, "valid")
    \/ \E s \in Sockets : JoinHostDeck(s, TRUE)
    \/ \E s \in Sockets, r \in Rooms : DrawCardsRequest(s, r)
    \/ \E s \in Sockets, r \in Rooms, i \in CardIndexes : PlayCardRequest(s, r, i)
    \/ \E s \in Sockets, r \in Rooms : AttackRequest(s, r)

SpecSessions == InitServer /\ [][NextSessions]_vars

(***************************************************************************)
(* C24                                                                     *)
(***************************************************************************)
\* The rooms a lobby was created for.
Created == {r \in Rooms : server.lobbyObjects[r] # Null}

\* In every state: no lobby has started more than one Game, a Game in the
\* map is the one of the lobby's host and recorded guest, and addGuest on a
\* full lobby is refused and leaves the lobby as it is.
C24_AtMostOneGame ==
    \A r \in Created :
        LET lobby == server.lobbyObjects[r]
        IN  /\ server.started[r] <= 1
            /\ server.games[r] # Null
                  => /\ server.started[r] = 1
                     /\ server.games[r].hostSocketId = lobby.host
                     /\ server.games[r].guestSocketId = lobby.guest
                     /\ lobby.guest # NullId
            /\ Lobby_isFull(lobby)
                  => \A s \in Sockets :
                        /\ ~Lobby_addGuest(lobby, s).added
                        /\ Lobby_addGuest(lobby, s).lobby = lobby

\* In every step: a recorded guest is not replaced, and a Game in the map
\* is changed by its players' moves or deleted, never built anew.
C24_GuestKept ==
    \A r \in Created :
        /\ Lobby_isFull(server.lobbyObjects[r])
              => server'.lobbyObjects[r] = server.lobbyObjects[r]
        /\ server.games[r] # Null
              => /\ server'.started[r] = server.started[r]
                 /\ server'.games[r] # Null
                       => /\ server'.games[r].hostSocketId = server.games[r].hostSocketId
                          /\ server'.games[r].guestSocketId = server.games[r].guestSocketId

\* C24: a lobby accepts at most one guest.  The first join that reaches
\* addGuest succeeds; every later one fails, whatever the interleaving of
\* the joinRoom handlers at their awaits, without replacing the recorded
\* guest or the players of the Game; at most one join constructs a Game.
C24_SingleGuest == []C24_AtMostOneGame /\ [][C24_GuestKept]_vars

\* The Game of a lobby has been built for its guest while the joinRoom
\* handler of another client, which found the lobby with room left, is
\* still suspended on its deck lookup.
C24_Witness ==
    \E r \in Created, s \in Sockets :
        /\ server.started[r] = 1
        /\ server.games[r] # Null
        /\ server.joins[s] = [pc |-> "deck", roomId |-> r]
        /\ server.lobbyObjects[r].guest \notin {NullId, s}
        /\ server.lobbyObjects[r].host # server.lobbyObjects[r].guest

(***************************************************************************)
(* C25                                                                     *)
(***************************************************************************)
\* The game requests a client can send for a room, with what the handler
\* answers.
GameRequests(socketId, roomId) ==
    {handleDrawCards(server, socketId, roomId),
     handleAttack(server, socketId, roomId)}
        \cup {handlePlayCard(server, socketId, roomId, i) : i \in CardIndexes}

\* The participant of a game that is not the given one.
C25_Remaining(g, socketId) ==
    IF socketId = g.hostSocketId THEN g.guestSocketId ELSE g.hostSocketId

\* The step in which a connected participant of a game in the map
\* disconnects takes the game out of the map and sends
\* opponentDisconnected to the other participant, for the first time.
C25_Disconnects ==
    \A s \in server.connected :
        \A r \in GamesOf(server, s) :
            server'.connected = server.connected \ {s}
            => /\ server'.games[r] = Null
               /\ server.notices[r] = <<>>
               /\ server'.notices[r] = <<C25_Remaining(server.games[r], s)>>

\* What was sent stays sent, and nothing is sent a second time.
C25_NoticeKept ==
    \A r \in Rooms : server.notices[r] # <<>> => server'.notices[r] = server.notices[r]

\* Once opponentDisconnected was sent for a game, the game is not in the
\* map and every game request for its id, by any client, changes nothing
\* and is answered by the one error "Game not found" to its sender.
C25_Gone ==
    \A r \in Rooms :
        server.notices[r] # <<>>
            => /\ Len(server.notices[r]) = 1
               /\ server.games[r] = Null
               /\ \A s \in Sockets :
                     \A answer \in GameRequests(s, r) :
                        /\ answer.server = server
                        /\ answer.emits = <<emitTo(s, "error", "Game not found")>>

\* C25: when a participant of a running game disconnects, the game leaves
\* the registry, the remaining participant is sent opponentDisconnected
\* exactly once, and from then on every drawCards, playCard and attack for
\* that game id gets the not-found error and changes no state.
C25_AfterDisconnect ==
    []C25_Gone /\ [][C25_Disconnects /\ C25_NoticeKept]_vars

\* A game that was played in is gone because one of its two players
\* disconnected; the other one, still connected, has been told.
C25_Witness ==
    \E r \in Rooms :
        /\ server.started[r] = 1
        /\ server.moves > 0
        /\ server.games[r] = Null
        /\ Len(server.notices[r]) = 1
        /\ server.notices[r][1] \in server.connected
        /\ server.lobbyObjects[r].guest \in Sockets \ server.connected
        /\ server.lobbyObjects[r].host = server.notices[r][1]

(***************************************************************************)
(* C26                                                                     *)
(***************************************************************************)
\* The sessions: the rooms with a Game in the map.
Sessions == {r \in Rooms : server.games[r] # Null}

\* A game request for room r leaves everything but the Game of r (and the
\* deletion scheduled for it) as it was.
C26_OnlyItsSession(r, answer) ==
    /\ answer.server = [server EXCEPT !.games[r] = answer.server.games[r],
                                      !.timers = answer.server.timers]
    /\ answer.server.timers \subseteq server.timers \cup {r}
    /\ \A q \in Rooms \ {r} : answer.server.games[q] = server.games[q]

\* A game request for session r by a connection that is not one of its two
\* players changes nothing and is answered by the player-not-found error.
C26_StrangerRejected(r, s, answer) ==
    s \notin {server.games[r].hostSocketId, server.games[r].guestSocketId}
        => /\ answer.server = server
           /\ Len(answer.emits) = 1
           /\ answer.emits[1].to = s
           /\ answer.emits[1].type = "error"
           /\ answer.emits[1].text \in PlayerNotFoundTexts

\* C26: sessions are independent.  An action addressed to session S
\* changes no state of any other session, and an action on S sent by a
\* connection that is not one of S's two participants is rejected with the
\* player-not-found error and leaves S unchanged.
C26_Independent ==
    \A r \in Rooms, s \in Sockets :
        \A answer \in GameRequests(s, r) :
            /\ C26_OnlyItsSession(r, answer)
            /\ r \in Sessions => C26_StrangerRejected(r, s, answer)

\* Two sessions with different guests side by side, one of them played in
\* and at a point where its player to move can change it, the guest of the
\* other one being a stranger to it.
C26_Witness ==
    \E r \in Sessions, q \in Sessions :
        /\ r # q
        /\ server.games[r].guestSocketId # server.games[q].guestSocketId
        /\ server.games[r].guestSocketId # server.games[r].hostSocketId
        /\ server.games[q].guestSocketId # server.games[q].hostSocketId
        /\ server.games[r].hostPlayer.hand # <<>>
        /\ \E s \in Sockets : \E answer \in GameRequests(s, r) :
              answer.server.games[r] # server.games[r]
        /\ ~PlayingGame_hasPlayer(server.games[r], server.games[q].guestSocketId)

(***************************************************************************)
(* The SocketHandler that keeps one map of rooms (each room with its host, *)
(* its guest and its Game) and the Game it constructs (game.class).  Under *)
(* SpecRooms the variable server holds this handler.  A room object lives  *)
(* on after it left the map, for the handlers that hold it.                *)
(***************************************************************************)
\* new Game(roomId, hostSocketId, hostDeck, guestSocketId, guestDeck)
RoomGame_new(hostSocketId, hostDeck, guestSocketId, guestDeck) ==
    [hostPlayer |-> NewPlayer(hostSocketId, hostDeck),
     guestPlayer |-> NewPlayer(guestSocketId, guestDeck),
     currentTurn |-> "host",
     status |-> "playing",
     winner |-> NullId]

\* Game.drawCards: the player draws, whoever's turn it is.
RoomGame_drawCards(g, playerSocketId) ==
    IF playerSocketId = g.hostPlayer.socketId
    THEN [game |-> [g EXCEPT !.hostPlayer = Player_drawCards(@).player],
          success |-> TRUE, message |-> Player_drawCards(g.hostPlayer).message]
    ELSE IF playerSocketId = g.guestPlayer.socketId
    THEN [game |-> [g EXCEPT !.guestPlayer = Player_drawCards(@).player],
          success |-> TRUE, message |-> Player_drawCards(g.guestPlayer).message]
    ELSE [game |-> g, success |-> FALSE, message |-> [text |-> "Joueur non trouve"]]

\* const room: Room = {id, host, guest: {socketId: null, ...}, game: null}
NewRoom(hostSocketId) == [host |-> hostSocketId, guest |-> NullId, game |-> Null]

\* new SocketHandler(httpServer), every client connected.  startedFor lists,
\* per room, the guests that were sent gameStarted.
Rooms_new ==
    [roomObjects |-> [r \in Rooms |-> Null],
     rooms |-> {},
     joins |-> [s \in Sockets |-> Idle],
     connected |-> Sockets,
     startedFor |-> [r \in Rooms |-> <<>>],
     notices |-> [r \in Rooms |-> <<>>]]

\* handleCreateRoom once its deck lookup has returned a deck of the
\* required size.
Rooms_handleCreateRoom(h, socketId, roomId) ==
    [server |-> [h EXCEPT !.roomObjects[roomId] = NewRoom(socketId),
                          !.rooms = @ \cup {roomId}],
     emits |-> <<emitTo(socketId, "roomCreated", roomId),
                 emitTo("all", "roomsListUpdated", "")>>]

\* handleJoinRoom up to its first await: the room is looked up and has to
\* be without a guest; the handler keeps the room object.
Rooms_handleJoinRoom_lookup(h, socketId, roomId) ==
    IF roomId \notin h.rooms THEN Answer(h, socketId, "Room non trouvee")
    ELSE IF h.roomObjects[roomId].guest # NullId
    THEN Answer(h, socketId, "La room est deja pleine")
    ELSE [server |-> [h EXCEPT !.joins[socketId] = [pc |-> "deck", roomId |-> roomId]],
          emits |-> <<>>]

\* handleJoinRoom from the guest's deck to its second await.
Rooms_handleJoinRoom_deck(h, socketId, deck) ==
    LET roomId == h.joins[socketId].roomId
        done == [h EXCEPT !.joins[socketId] = Idle]
    IN  IF deck = "missing"
        THEN Answer(done, socketId, "Deck non trouve ou vous n'en etes pas le proprietaire")
        ELSE IF deck = "wrongSize"
        THEN Answer(done, socketId, "Le deck doit contenir exactement 20 cartes")
        ELSE [server |-> [h EXCEPT !.joins[socketId] = [pc |-> "hostDeck",
                                                        roomId |-> roomId]],
              emits |-> <<>>]

\* handleJoinRoom from the host's deck to its end: the guest is written
\* into the room object and the room's Game is constructed.
Rooms_handleJoinRoom_hostDeck(h, socketId, hostDeckFound, hostDeck, guestDeck) ==
    LET roomId == h.joins[socketId].roomId
        done == [h EXCEPT !.joins[socketId] = Idle]
        room == h.roomObjects[roomId]
        game == RoomGame_new(room.host, hostDeck, socketId, guestDeck)
    IN  IF ~hostDeckFound THEN Answer(done, socketId, "Deck de l'hote non trouve")
        ELSE [server |-> [done EXCEPT
                             !.roomObjects[roomId] = [room EXCEPT !.guest = socketId,
                                                                  !.game = game],
                             !.startedFor[roomId] = Append(@, socketId)],
              emits |-> <<emitTo(room.host, "gameStarted", roomId),
                          emitTo(socketId, "gameStarted", roomId),
                          emitTo("all", "roomsListUpdated", "")>>]

\* handleDrawCards: the room has to be in the map and to have its Game.
Rooms_handleDrawCards(h, socketId, roomId) ==
    IF roomId \notin h.rooms \/ h.roomObjects[roomId].game = Null
    THEN Answer(h, socketId, "Room ou partie non trouvee")
    ELSE LET room == h.roomObjects[roomId]
             result == RoomGame_drawCards(room.game, socketId)
         IN  IF ~result.success THEN Answer(h, socketId, result.message.text)
             ELSE [server |-> [h EXCEPT !.roomObjects[roomId].game = result.game],
                   emits |-> <<emitTo(room.host, "gameStateUpdated", ""),
                               emitTo(room.guest, "gameStateUpdated", "")>>]

\* The player of a room that handleDisconnect notifies, if any.
Rooms_notified(room, socketId) ==
    IF room.guest # NullId /\ room.guest # socketId THEN <<room.guest>>
    ELSE IF room.host # socketId THEN <<room.host>>
    ELSE <<>>

\* handleDisconnect: the rooms of the socket leave the map and the other
\* player is sent opponentDisconnected.
Rooms_handleDisconnect(h, socketId) ==
    LET gone == {r \in h.rooms : h.roomObjects[r].host = socketId
                                    \/ h.roomObjects[r].guest = socketId}
    IN  [h EXCEPT
            !.rooms = @ \ gone,
            !.notices = [r \in Rooms |->
                            IF r \in gone
                            THEN @[r] \o Rooms_notified(h.roomObjects[r], socketId)
                            ELSE @[r]],
            !.connected = @ \ {socketId}]

InitRooms ==
    /\ guest = NullId
    /\ hostPlayer = Null
    /\ guestPlayer = Null
    /\ currentTurn = "host"
    /\ status = "waiting"
    /\ winner = NullId
    /\ damageCall = Null
    /\ service = Null
    /\ server = Rooms_new

\* createRoom by a connected client, for the one room that is followed.
RoomsCreateRoom(socketId) ==
    /\ socketId \in server.connected
    /\ server.roomObjects = [r \in Rooms |-> Null]
    /\ \E after \in {Rooms_handleCreateRoom(server, socketId, "r1").server} :
          ServerBecomes(after)

\* joinRoom by a connected client with no join of its own under way.
RoomsJoinRoom(socketId, roomId) ==
    /\ socketId \in server.connected
    /\ roomId \in Rooms
    /\ server.joins[socketId] = Idle
    /\ \E after \in {Rooms_handleJoinRoom_lookup(server, socketId, roomId).server} :
          ServerBecomes(after)

\* The guest's deck lookup returns and the handler goes on.
RoomsJoinDeck(socketId, deck) ==
    /\ server.joins[socketId].pc = "deck"
    /\ deck \in DeckLookups
    /\ \E after \in {Rooms_handleJoinRoom_deck(server, socketId, deck).server} :
          ServerBecomes(after)

\* The host's deck lookup returns and the handler goes on to its end.
RoomsJoinHostDeck(socketId, hostDeckFound) ==
    /\ server.joins[socketId].pc = "hostDeck"
    /\ hostDeckFound \in BOOLEAN
    /\ \E hostDeck \in Shuffles(StoreDeck), guestDeck \in Shuffles(StoreDeck) :
          \E after \in {Rooms_handleJoinRoom_hostDeck(server, socketId, hostDeckFound,
                                                      hostDeck, guestDeck).server} :
              ServerBecomes(after)

RoomsDrawCards(socketId, roomId) ==
    /\ socketId \in server.connected
    /\ roomId \in Rooms
    /\ \E after \in {Rooms_handleDrawCards(server, socketId, roomId).server} :
          ServerBecomes(after)

RoomsDisconnect(socketId) ==
    /\ socketId \in server.connected
    /\ \E after \in {Rooms_handleDisconnect(server, socketId)} : ServerBecomes(after)

\* One room: clients create it, join it, draw and disconnect in any order,
\* the join handlers interleaved at their awaits.
NextRooms ==
    \/ \E s \in Sockets : RoomsCreateRoom(s)
    \/ \E s \in Sockets, r \in Rooms : RoomsJoinRoom(s, r)
    \/ \E s \in Sockets, d \in DeckLookups : RoomsJoinDeck(s, d)
    \/ \E s \in Sockets, f \in BOOLEAN : RoomsJoinHostDeck(s, f)
    \/ \E s \in Sockets, r \in Rooms : RoomsDrawCards(s, r)
    \/ \E s \in Sockets : RoomsDisconnect(s)

SpecRooms == InitRooms /\ [][NextRooms]_vars

(***************************************************************************)
(* C28                                                                     *)
(***************************************************************************)
\* The rooms that have their guest and their Game.
C28_Bound == {r \in Rooms : server.roomObjects[r] # Null
                            /\ server.roomObjects[r].game # Null}

\* C28: in the SocketHandler that keeps the rooms map, once a guest has
\* been bound to a room and the room's Game constructed, no step (a later
\* joinRoom, or one that was suspended at an await between the fullness
\* check and the assignment) replaces the room's guest or constructs its
\* Game again.
C28_JoinTakesEffectOnce ==
    [][\A r \in C28_Bound :
          /\ server'.roomObjects[r].guest = server.roomObjects[r].guest
          /\ server'.startedFor[r] = server.startedFor[r]]_vars

\* A room in the map whose host was told twice that the game starts:
\* first with one guest, then with another, who is the room's guest now in
\* a newly built Game; all three clients still connected.
C28_Witness ==
    \E r \in C28_Bound \cap server.rooms :
        LET room == server.roomObjects[r]
        IN  /\ Len(server.startedFor[r]) = 2
            /\ server.startedFor[r][1] # server.startedFor[r][2]
            /\ room.guest = server.startedFor[r][2]
            /\ room.game.guestPlayer.socketId = room.guest
            /\ room.game.hostPlayer.hand = <<>>
            /\ {room.host, server.startedFor[r][1], room.guest} \subseteq server.connected
            /\ room.host \notin {server.startedFor[r][1], room.guest}

(***************************************************************************)
(* C29                                                                     *)
(***************************************************************************)
\* The lobbies whose host has disconnected.
C29_HostLeft == {r \in Created : server.lobbyObjects[r].host \notin server.connected}

\* A lobby whose host has disconnected is not in the map.
C29_LobbyDestroyed == \A r \in C29_HostLeft : r \notin server.lobbies

\* No step constructs a Game from a lobby whose host has disconnected, or
\* puts one in the map.
C29_NoGameBuilt ==
    \A r \in C29_HostLeft :
        /\ server'.started[r] = server.started[r]
        /\ server.games[r] = Null => server'.games[r] = Null

\* C29: after the host disconnects while its lobby is still waiting, the
\* lobby is destroyed and no Game is ever constructed from it and
\* registered, also when a guest's joinRoom handler had passed its lobby
\* lookup and was suspended at an await when the host disconnected.
C29_NoGameAfterHostLeft == []C29_LobbyDestroyed /\ [][C29_NoGameBuilt]_vars

\* A Game is in the map, built from a lobby that left the map when its
\* host disconnected, for a guest who is still connected.
C29_Witness ==
    \E r \in C29_HostLeft :
        /\ r \notin server.lobbies
        /\ server.games[r] # Null
        /\ server.games[r].hostSocketId \notin server.connected
        /\ server.games[r].guestSocketId \in server.connected
        /\ server.notices[r] = <<>>

(***************************************************************************)
(* GameService with the seam its tests use: getState() hands out the       *)
(* state object and the test writes the turn into it.                      *)
(***************************************************************************)
\* game.getState().currentTurn = socketId
ServiceSetCurrentTurn(socketId) ==
    /\ socketId \in {service.hostSocketId, service.guestSocketId}
    /\ ServiceBecomes([service EXCEPT !.currentTurn = socketId])

NextServiceSeam ==
    \/ NextService
    \/ \E s \in Sockets : ServiceSetCurrentTurn(s)

SpecServiceSeam == InitService /\ [][NextServiceSeam]_vars

(***************************************************************************)
(* C31                                                                     *)
(***************************************************************************)
\* The calls on the GameService, each with the state it leaves.
ServiceCalls ==
    {GameService_drawCards(service, s).state : s \in Sockets}
        \cup {GameService_attack(service, s).state : s \in Sockets}
        \cup {GameService_playCard(service, s, i).state : s \in Sockets, i \in CardIndexes}

\* C31: once status = finished, no drawCards, playCard or attack call
\* changes any player's hand, draw pile, active unit or score, nor the
\* turn, status or winner.
C31_FinishedIsTerminal ==
    service.status = "finished" => \A after \in ServiceCalls : after = service

\* A game won by three knock-outs in which the winner's drawCards still
\* moves a card from the draw pile to the hand.
C31_Witness ==
    /\ service.status = "finished"
    /\ service.winner = service.hostSocketId
    /\ service.host.score = WinScore
    /\ service.hostSocketId # service.guestSocketId
    /\ LET after == GameService_drawCards(service, service.winner).state
       IN  /\ Len(after.host.hand) = Len(service.host.hand) + 1
           /\ Len(after.host.deck) = Len(service.host.deck) - 1
           /\ after.status = "finished"

(***************************************************************************)
(* C32                                                                     *)
(***************************************************************************)
\* GameService.getStateForPlayer: the boards are picked by isHost alone.
GameService_getStateForPlayer(st, playerSocketId) ==
    LET isHost_ == st.hostSocketId = playerSocketId
        yours == IF isHost_ THEN st.host ELSE st.guest
        theirs == IF isHost_ THEN st.guest ELSE st.host
    IN  [status |-> st.status,
         winner |-> st.winner,
         currentTurn |-> st.currentTurn,
         isYourTurn |-> st.currentTurn = playerSocketId,
         yourBoard |-> [activeCard |-> yours.activeCard,
                        hand |-> yours.hand,
                        deckCount |-> Len(yours.deck),
                        score |-> yours.score],
         opponentBoard |-> [activeCard |-> theirs.activeCard,
                            handCount |-> Len(theirs.hand),
                            deckCount |-> Len(theirs.deck),
                            score |-> theirs.score]]

\* In Game: an id that is neither the host's nor the guest's gets null.
C32_InGame ==
    \A s \in Sockets \ {HostId, guest} : getStateForPlayer(Game, s) = Null

\* In GameService: the same.
C32_InGameService ==
    \A s \in ServiceStrangers : GameService_getStateForPlayer(service, s) = Null

\* C32: getStateForPlayer called with an id that is neither the host nor
\* the guest reveals no player's hand or board: it returns no projection
\* (null), both in Game and in GameService.
C32_NoProjectionForStrangers == C32_InGame /\ C32_InGameService

\* A connection that is neither player asks a GameService whose guest has
\* drawn for its state, and is handed the guest's hand.
C32_Witness ==
    /\ service.guestSocketId # service.hostSocketId
    /\ service.guest.hand # <<>>
    /\ \E s \in ServiceStrangers :
          /\ GameService_getStateForPlayer(service, s).yourBoard.hand = service.guest.hand
          /\ GameService_getStateForPlayer(service, s).opponentBoard.activeCard
                = service.host.activeCard

(***************************************************************************)
(* C33                                                                     *)
(***************************************************************************)
\* C33: the two players of every constructed session have distinct
\* connection ids: the host's own joinRoom on its lobby is rejected, so a
\* lobby's guest is never its host, and in every Game each of the two ids
\* resolves to its own side.
C33_DistinctPlayers ==
    /\ \A r \in Created : server.lobbyObjects[r].guest # server.lobbyObjects[r].host
    /\ \A r \in Sessions :
          LET g == server.games[r]
          IN  /\ g.hostSocketId # g.guestSocketId
              /\ getPlayerBySocketId(g, g.hostSocketId) = "host"
              /\ getPlayerBySocketId(g, g.guestSocketId) = "guest"

\* The host joined its own lobby and a Game was registered for it: both
\* seats carry the same id, which resolves to the host's side, and the
\* guest's Player cannot be reached.
C33_Witness ==
    \E r \in Sessions :
        LET g == server.games[r]
        IN  /\ g.hostSocketId = g.guestSocketId
            /\ server.lobbyObjects[r].guest = server.lobbyObjects[r].host
            /\ getPlayerBySocketId(g, g.guestSocketId) = "host"
            /\ \A s \in Sockets : getPlayerBySocketId(g, s) # "guest"
            /\ g.hostSocketId \in server.connected

(***************************************************************************)
(* C34                                                                     *)
(***************************************************************************)
\* What the attack of one Player on another has to leave, given the damage
\* the rules give for the two active units.
C34_Effect(attacker, defender, result) ==
    LET damage == calculateDamage(attacker.activeCard.card.attack,
                                  attacker.activeCard.card.type,
                                  defender.activeCard.card.defense,
                                  defender.activeCard.card.type)
        hp == defender.activeCard.currentHp - damage
    IN  /\ IF hp <= 0
           THEN /\ result.opponent.activeCard = Null
                /\ result.self.score = attacker.score + 1
           ELSE /\ result.opponent.activeCard.card = defender.activeCard.card
                /\ result.opponent.activeCard.currentHp = hp
                /\ result.self.score = attacker.score
        /\ result.self.activeCard = attacker.activeCard
        /\ result.self.hand = attacker.hand
        /\ result.self.deck = attacker.deck
        /\ result.opponent.hand = defender.hand
        /\ result.opponent.deck = defender.deck
        /\ result.opponent.score = defender.score

\* The two ways round the players of the game can attack each other.
C34_Pairs ==
    IF hostPlayer = Null \/ guestPlayer = Null THEN {}
    ELSE {<<hostPlayer, guestPlayer>>, <<guestPlayer, hostPlayer>>}

\* C34: a successful attack subtracts the damage from the defender's
\* active unit only; if the resulting currentHp is <= 0 the unit is removed
\* and the attacker's score rises by exactly 1, otherwise no score changes;
\* the attacker's unit and its HP, both hands, both draw piles and the
\* defender's score are unchanged.
C34_AttackFrame ==
    \A pair \in C34_Pairs :
        LET result == Player_attack(pair[1], pair[2])
        IN  IF pair[1].activeCard # Null /\ pair[2].activeCard # Null
            THEN result.success /\ C34_Effect(pair[1], pair[2], result)
            ELSE ~result.success /\ result.self = pair[1] /\ result.opponent = pair[2]

\* Both kinds of successful attack are at hand in one game: the host's
\* unit can knock the guest's wounded unit out, and the guest's unit can
\* only wound the host's.
C34_Witness ==
    /\ hostPlayer # Null /\ guestPlayer # Null
    /\ hostPlayer.activeCard # Null /\ guestPlayer.activeCard # Null
    /\ guestPlayer.activeCard.currentHp < guestPlayer.activeCard.card.hp
    /\ Player_attack(hostPlayer, guestPlayer).cardDefeated
    /\ Player_attack(hostPlayer, guestPlayer).self.score = hostPlayer.score + 1
    /\ ~Player_attack(guestPlayer, hostPlayer).cardDefeated
    /\ Player_attack(guestPlayer, hostPlayer).success

(***************************************************************************)
(* C35                                                                     *)
(***************************************************************************)
\* The cards of a player that are still somewhere: draw pile, hand, board.
C35_Held(p) ==
    Len(p.deck) + Len(p.hand) + (IF p.activeCard # Null THEN 1 ELSE 0)

\* Every card of the initial deck is held or was knocked out for a point
\* of the opponent.
C35_Conserved ==
    (hostPlayer # Null /\ guestPlayer # Null)
        => /\ C35_Held(hostPlayer) + guestPlayer.score = DeckSize
           /\ C35_Held(guestPlayer) + hostPlayer.score = DeckSize

\* No step makes a draw pile longer.
C35_NeverRefilled ==
    /\ hostPlayer # Null => Len(hostPlayer'.deck) <= Len(hostPlayer.deck)
    /\ guestPlayer # Null => Len(guestPlayer'.deck) <= Len(guestPlayer.deck)

\* C35: cards are conserved and the draw pile is never refilled: for each
\* player, in every reachable state, |draw pile| + |hand| + (1 if an
\* active unit is present) + the opponent's score equals the size of the
\* player's initial deck, and the draw pile's size never increases.
C35_CardsConserved == []C35_Conserved /\ [][C35_NeverRefilled]_vars

\* Cards of both players are in all four places: each has drawn, holds a
\* hand, has a unit on the board and has lost a unit to the other.
C35_Witness ==
    /\ hostPlayer # Null /\ guestPlayer # Null
    /\ hostPlayer.score >= 1 /\ guestPlayer.score >= 1
    /\ hostPlayer.activeCard # Null /\ guestPlayer.activeCard # Null
    /\ hostPlayer.hand # <<>> /\ guestPlayer.hand # <<>>
    /\ Len(hostPlayer.deck) < DeckSize /\ Len(guestPlayer.deck) < DeckSize

(***************************************************************************)
(* C36                                                                     *)
(***************************************************************************)
\* The active units on the board.
C36_Units ==
    {p.activeCard : p \in {q \in {hostPlayer, guestPlayer} :
                              q # Null /\ q.activeCard # Null}}

\* C36: in every reachable state (cards with base HP >= 1), every active
\* unit satisfies 0 < currentHp <= its card's base HP: a unit whose
\* currentHp reaches <= 0 is removed within the same attack call and is
\* never seen on the board.
C36_UnitsAlive ==
    \A unit \in C36_Units :
        /\ unit.card.hp >= 1
        /\ 0 < unit.currentHp
        /\ unit.currentHp <= unit.card.hp

\* A wounded unit on the board that the next attack of the other player's
\* unit knocks out, bringing it to 0 HP or below.
C36_Witness ==
    /\ hostPlayer # Null /\ guestPlayer # Null
    /\ hostPlayer.activeCard # Null /\ guestPlayer.activeCard # Null
    /\ guestPlayer.activeCard.currentHp < guestPlayer.activeCard.card.hp
    /\ guestPlayer.activeCard.currentHp
          <= calculateDamage(hostPlayer.activeCard.card.attack,
                             hostPlayer.activeCard.card.type,
                             guestPlayer.activeCard.card.defense,
                             guestPlayer.activeCard.card.type)
    /\ currentTurn = "host"
    /\ status = "playing"

(***************************************************************************)
(* C37                                                                     *)
(***************************************************************************)
\* The state updates of a batch that are addressed to a side.
C37_UpdatesTo(r, side) ==
    {i \in DOMAIN r.events : /\ r.events[i].type = "gameStateUpdated"
                             /\ r.events[i].target = side}

\* The one state update a batch addresses to a side.
C37_Update(r, side) == r.events[CHOOSE i \in C37_UpdatesTo(r, side) : TRUE]

\* C37: every successful drawCards, playCard or attack on Game returns
\* exactly one state update addressed to the host, carrying
\* getStateForPlayer(host), and exactly one addressed to the guest,
\* carrying getStateForPlayer(guest), both computed after the mutation;
\* neither addressee is sent the other's projection; for draw and play the
\* actor and the opponent get different messages, for attack the same.
C37_UpdatesToBoth ==
    \A c \in Calls :
        LET r == Apply(Game, c)
            toHost == C37_Update(r, "host")
            toGuest == C37_Update(r, "guest")
        IN  ~Failed(r)
            => /\ Cardinality(C37_UpdatesTo(r, "host")) = 1
               /\ Cardinality(C37_UpdatesTo(r, "guest")) = 1
               /\ \A i \in DOMAIN r.events :
                     r.events[i].type = "gameStateUpdated"
                        => r.events[i].target \in {"host", "guest"}
               /\ toHost.data.gameState = getStateForPlayer(r.game, HostId)
               /\ toGuest.data.gameState = getStateForPlayer(r.game, r.game.guest)
               /\ toHost.data.gameState # Null
               /\ toGuest.data.gameState # Null
               /\ r.game.guest # HostId
                     => /\ toHost.data.gameState.yourBoard = getOwnState(r.game.hostPlayer)
                        /\ toGuest.data.gameState.yourBoard = getOwnState(r.game.guestPlayer)
                        /\ toHost.data.gameState # getStateForPlayer(r.game, r.game.guest)
                        /\ toGuest.data.gameState # getStateForPlayer(r.game, HostId)
               /\ IF c.op = "attack"
                  THEN toHost.data.message = toGuest.data.message
                  ELSE toHost.data.message # toGuest.data.message

\* A game in play between two connections where the guest's attack and
\* the host's draw each succeed and change the game.
C37_Witness ==
    /\ Started
    /\ status = "playing"
    /\ guest # HostId
    /\ \E c \in Calls :
          /\ c.op = "attack" /\ c.by = guest
          /\ ~Failed(Apply(Game, c))
          /\ Apply(Game, c).game # Game
    /\ \E c \in Calls :
          /\ c.op = "drawCards" /\ c.by = HostId
          /\ ~Failed(Apply(Game, c))
          /\ Apply(Game, c).game # Game

(***************************************************************************)
(* C38                                                                     *)
(***************************************************************************)
\* The joinRoom handlers still under way on a room.
C38_Joining(r) == {s \in Sockets : server.joins[s].pc # "idle" /\ server.joins[s].roomId = r}

\* C38: every lobby that has recorded a guest is, by the end of that same
\* joinRoom request, out of the registry and replaced by a Game registered
\* under the same id: once no joinRoom is under way on it, no lobby in the
\* registry is full, whatever the deck store answered for the host's deck.
C38_FullLobbyConsumed ==
    \A r \in server.lobbies :
        Lobby_isFull(server.lobbyObjects[r]) => C38_Joining(r) # {}

\* A lobby listed in the registry with its guest recorded, no Game under
\* its id and no joinRoom under way, host and guest both connected.
C38_Witness ==
    \E r \in server.lobbies :
        /\ Lobby_isFull(server.lobbyObjects[r])
        /\ C38_Joining(r) = {}
        /\ server.games[r] = Null
        /\ server.started[r] = 0
        /\ {server.lobbyObjects[r].host, server.lobbyObjects[r].guest}
              \subseteq server.connected
        /\ server.lobbyObjects[r].host # server.lobbyObjects[r].guest
        /\ getAvailableLobbies(server) = {}

(***************************************************************************)
(* C39                                                                     *)
(***************************************************************************)
\* The side of the game a socket id plays on.
C39_SideOf(socketId) == IF socketId = HostId THEN "host" ELSE "guest"

\* The sides a game-ended event is delivered to.
C39_Addressees(event) ==
    IF event.target = "both" THEN {"host", "guest"} ELSE {event.target}

\* C39: when a game ends, the game-ended message delivered to the losing
\* player says they lost and the one delivered to the winner says they
\* won: the two participants never both receive the winning message.
C39_LoserIsToldLost ==
    \A c \in Calls :
        LET r == Apply(Game, c)
        IN  \A i \in GameEnded(r) :
               LET event == r.events[i]
                   winnerSide == C39_SideOf(r.game.winner)
               IN  \A side \in C39_Addressees(event) :
                      event.data.message = (IF side = winnerSide
                                            THEN "Vous avez gagne !"
                                            ELSE "Vous avez perdu !")

\* The host is one knock-out from the win and its attack ends the game
\* against a guest on another connection: the one game-ended event goes to
\* both sides and says "Vous avez gagne !".
C39_Witness ==
    /\ status = "playing"
    /\ guest # HostId
    /\ currentTurn = "host"
    /\ Score("host") = WinScore - 1
    /\ \E c \in Calls :
          /\ c.op = "attack" /\ c.by = HostId
          /\ \E i \in GameEnded(Apply(Game, c)) :
                /\ Apply(Game, c).events[i].target = "both"
                /\ Apply(Game, c).events[i].data.message = "Vous avez gagne !"
                /\ Apply(Game, c).events[i].data.winner = HostId

====
